---------------------------- MODULE Spec2Model ----------------------------
(***************************************************************************)
(* A model of rofi-mode: the glib-allocated String (src/src/string.rs),    *)
(* the Api handle over the host's display-name slot (src/src/api.rs) and   *)
(* the extern "C" entry points of a mode (src/src/lib.rs).                 *)
(*                                                                         *)
(* Three specifications share the module:                                  *)
(*   SpecString  one String driven through its public operations           *)
(*   SpecApi     one Api handle driven through the display-name calls      *)
(*   Spec        one session of a mode driven by the host's entry points   *)
(***************************************************************************)
EXTENDS Integers, Sequences, FiniteSets, TLC

VARIABLES
    debug_assertions, \* cfg!(debug_assertions) of the build
    mem,              \* the glib heap: blocks and the first fault seen
    str,              \* SpecString: the String under test
    phase,            \* SpecString: "live", "dropped" or "raw"
    raw,              \* SpecString: the pointer into_raw returned
    pushed,           \* SpecString: ghost, the arguments pushed since new() or clear()
    reserved,         \* SpecString: ghost, what is left of the last reserve(n)
    lastop,           \* SpecString: the last call and how it ended
    api,              \* SpecApi: the handle's shadow length and capacity
    label,            \* the host's display-name slot (*display_name)
    held,             \* SpecApi: the String the caller got back and still owns
    installed,        \* SpecApi: ghost, what the calls so far installed
    apiop,            \* SpecApi: the last call, its outcome and its return
    apitrace,         \* SpecApi: ghost, the shape of the call sequence
    icons,            \* SpecIcons: the icon requests made so far, by uid
    slot,             \* Spec: the session's private-data slot
    inst,             \* Spec: the Mode instances created so far
    input,            \* Spec: the host's input slot (*input)
    handed,           \* Spec: the pointers surrendered to the host and not yet freed by it
    call              \* Spec: the last entry-point call and how it ended

strVars == <<str, phase, raw, pushed, reserved, lastop>>
apiVars == <<api, held, installed, apiop, apitrace, icons>>
sessVars == <<slot, inst, input, handed, call>>

(***************************************************************************)
(* Bounds of the model.                                                    *)
(***************************************************************************)
\* Data bytes are 1..MaxByte; byte 0 is the nul terminator.
MaxByte == 2
\* Heap addresses handed out by the allocator in one run (never reused, so
\* that a stale pointer stays recognisable).
MaxAllocs == 3
\* usize is modelled UsizeBits wide.
UsizeBits == 5
\* Longest content and largest capacity a String is driven to.
MaxLen == 3
MaxCap == 20
\* Icon requests made in one run.
MaxIcons == 3

(***************************************************************************)
(* Pointers.  0 is the null pointer, 1 the address of the static           *)
(* PTR_TO_NULL byte, heap addresses follow.                                *)
(***************************************************************************)
NullPtr == 0
PTR_TO_NULL == 1
HeapAddrs == 2..(MaxAllocs + 1)

Byte == 0..MaxByte
\* What a read outside any live block yields: no byte at all.
Undef == MaxByte + 1

RECURSIVE Pow2(_)
Pow2(n) == IF n = 0 THEN 1 ELSE 2 * Pow2(n - 1)

USIZE_MAX == Pow2(UsizeBits) - 1

Max(a, b) == IF a >= b THEN a ELSE b

Min(a, b) == IF a <= b THEN a ELSE b

(***************************************************************************)
(* The allocator (g_malloc, g_malloc0_n, g_realloc, g_free).  A block is   *)
(* unused, live or freed.  mem.fault records the first misuse.             *)
(***************************************************************************)
Block(st, bytes) == [st |-> st, bytes |-> bytes]

\* fill is what the allocator's fresh bytes hold in this run: unspecified, it
\* is any of JunkBytes.
EmptyMem == [blk |-> [a \in HeapAddrs |-> Block("unused", <<>>)], fault |-> "none", fill |-> 0]

Live(M, p) == p \in HeapAddrs /\ M.blk[p].st = "live"

LiveSet(M) == {a \in HeapAddrs : M.blk[a].st = "live"}

UsedSet(M) == {a \in HeapAddrs : M.blk[a].st # "unused"}

HasFresh(M) == \E a \in HeapAddrs : M.blk[a].st = "unused"

Fresh(M) == CHOOSE a \in HeapAddrs :
                /\ M.blk[a].st = "unused"
                /\ \A b \in HeapAddrs : b < a => M.blk[b].st # "unused"

Fault(M, what) == IF M.fault = "none" THEN [M EXCEPT !.fault = what] ELSE M

\* malloc(size): a fresh block of unspecified bytes (all equal to junk).
Malloc(M, size, junk) ==
    [M EXCEPT !.blk[Fresh(M)] = Block("live", [i \in 1..size |-> junk])]

\* calloc(n, 1): a fresh zeroed block.
Calloc(M, size) ==
    [M EXCEPT !.blk[Fresh(M)] = Block("live", [i \in 1..size |-> 0])]

Resized(bytes, size, junk) ==
    [i \in 1..size |-> IF i <= Len(bytes) THEN bytes[i] ELSE junk]

\* realloc(p, size): in place, or moved to a fresh block with p freed.
Realloc(M, p, size, move, junk) ==
    IF ~Live(M, p) THEN Fault(M, "realloc of a dead pointer")
    ELSE IF move
         THEN [M EXCEPT !.blk[Fresh(M)] = Block("live", Resized(M.blk[p].bytes, size, junk)),
                        !.blk[p] = Block("freed", <<>>)]
         ELSE [M EXCEPT !.blk[p] = Block("live", Resized(M.blk[p].bytes, size, junk))]

ReallocPtr(M, p, move) == IF Live(M, p) /\ move THEN Fresh(M) ELSE p

Free(M, p) ==
    IF Live(M, p) THEN [M EXCEPT !.blk[p] = Block("freed", <<>>)]
    ELSE IF p \in HeapAddrs /\ M.blk[p].st = "freed" THEN Fault(M, "double free")
    ELSE Fault(M, "free of a non-heap pointer")

\* *p.add(off) = b
WriteByte(M, p, off, b) ==
    IF Live(M, p) /\ off < Len(M.blk[p].bytes)
    THEN [M EXCEPT !.blk[p].bytes[off + 1] = b]
    ELSE Fault(M, "write outside a live block")

RECURSIVE WriteBytes(_, _, _, _)
WriteBytes(M, p, off, bs) ==
    IF bs = <<>> THEN M
    ELSE WriteBytes(WriteByte(M, p, off, Head(bs)), p, off + 1, Tail(bs))

\* slice::from_raw_parts(p, n): the n bytes at p.
ReadBytes(M, p, n) ==
    [i \in 1..n |->
        IF p = PTR_TO_NULL THEN (IF i = 1 THEN 0 ELSE Undef)
        ELSE IF Live(M, p) /\ i <= Len(M.blk[p].bytes) THEN M.blk[p].bytes[i]
        ELSE Undef]


(***************************************************************************)
(* String (src/src/string.rs).  A String is [ptr, len, capacity]; every    *)
(* operation maps a heap and a String to Res(heap, String, outcome), the   *)
(* outcome being "ok", "panic" (the call unwinds) or "oom" (the model has  *)
(* no heap address left: the bound, not the program).                      *)
(* nd = [move, junk] are the allocator's choices, dbg the build flag.      *)
(***************************************************************************)
MIN_NON_ZERO_CAP == 8

\* The bytes of fresh memory are unspecified: they may look like a terminator
\* or like data.
JunkBytes == {0, MaxByte}

FilledMem == {[EmptyMem EXCEPT !.fill = j] : j \in JunkBytes}

AllocChoices == [move : BOOLEAN, junk : {mem.fill}]

Res(M, s, out) == [mem |-> M, s |-> s, out |-> out]

Range(f) == {f[i] : i \in DOMAIN f}

\* usize arithmetic that is not checked_*: a debug build panics on overflow,
\* a release build wraps.
Wrap(x) == x % (USIZE_MAX + 1)
Overflows(x) == x > USIZE_MAX \/ x < 0

StringNew == [ptr |-> PTR_TO_NULL, len |-> 0, capacity |-> 0]

len(s) == s.len

is_empty(s) == len(s) = 0

capacity(s) == s.capacity

as_str(M, s) == ReadBytes(M, s.ptr, s.len)

as_str_nul(M, s) == ReadBytes(M, s.ptr, s.len + 1)

\* The debug_assert!s of from_raw_parts fire in a debug build only.
FromRawPartsPanics(p, l, cap, dbg) == dbg /\ (p = NullPtr \/ cap = 0 \/ ~(l < cap))

from_raw_parts(p, l, cap) == [ptr |-> p, len |-> l, capacity |-> cap]

\* Mutant: the pointer field is returned whatever the capacity.
MutIntoRawReturnsField(M, s) == [mem |-> M, ptr |-> s.ptr, out |-> "ok"]

\* into_raw: [mem, ptr, out].
into_raw(M, s) ==
    IF s.capacity = 0
    THEN IF HasFresh(M)
         THEN [mem |-> Calloc(M, 1), ptr |-> Fresh(M), out |-> "ok"]
         ELSE [mem |-> M, ptr |-> NullPtr, out |-> "oom"]
    ELSE [mem |-> M, ptr |-> s.ptr, out |-> "ok"]

\* Mutant: a fresh allocation whose first byte is not stamped with the terminator.
MutReserveGrowNoStamp(M, s, new_capacity, nd) ==
    IF s.capacity = 0
    THEN IF HasFresh(M)
         THEN Res(Malloc(M, new_capacity, nd.junk),
                  [s EXCEPT !.ptr = Fresh(M), !.capacity = new_capacity], "ok")
         ELSE Res(M, s, "oom")
    ELSE IF nd.move /\ ~HasFresh(M)
         THEN Res(M, s, "oom")
         ELSE Res(Realloc(M, s.ptr, new_capacity, nd.move, nd.junk),
                  [s EXCEPT !.ptr = ReallocPtr(M, s.ptr, nd.move),
                            !.capacity = new_capacity], "ok")

ReserveGrow(M, s, new_capacity, nd) ==
    IF s.capacity = 0
    THEN IF HasFresh(M)
         THEN Res(WriteByte(Malloc(M, new_capacity, nd.junk), Fresh(M), 0, 0),
                  [s EXCEPT !.ptr = Fresh(M), !.capacity = new_capacity], "ok")
         ELSE Res(M, s, "oom")
    ELSE IF nd.move /\ ~HasFresh(M)
         THEN Res(M, s, "oom")
         ELSE Res(Realloc(M, s.ptr, new_capacity, nd.move, nd.junk),
                  [s EXCEPT !.ptr = ReallocPtr(M, s.ptr, nd.move),
                            !.capacity = new_capacity], "ok")

\* Mutant: the new capacity is the minimum needed, never the doubled one.
MutReserveNoDoubling(M, s, n, nd, dbg) ==
    IF n < Wrap(s.capacity - s.len) THEN Res(M, s, "ok")
    ELSE IF Overflows(s.len + n) \/ Overflows(s.len + n + 1) THEN Res(M, s, "panic")
    ELSE ReserveGrow(M, s, Max(MIN_NON_ZERO_CAP, s.len + n + 1), nd)

\* Mutant: the room test counts the byte kept for the terminator as free.
MutReserveCountsNul(M, s, n, nd, dbg) ==
    IF n <= Wrap(s.capacity - s.len) THEN Res(M, s, "ok")
    ELSE IF Overflows(s.len + n) \/ Overflows(s.len + n + 1) THEN Res(M, s, "panic")
    ELSE ReserveGrow(M, s, Max(MIN_NON_ZERO_CAP, Max(Wrap(s.capacity * 2), s.len + n + 1)), nd)

reserve(M, s, n, nd, dbg) ==
    IF Overflows(s.capacity - s.len) /\ dbg THEN Res(M, s, "panic")
    ELSE IF n < Wrap(s.capacity - s.len) THEN Res(M, s, "ok")
    ELSE IF Overflows(s.len + n) \/ Overflows(s.len + n + 1) THEN Res(M, s, "panic")
    ELSE IF Overflows(s.capacity * 2) /\ dbg THEN Res(M, s, "panic")
    ELSE LET min_capacity == s.len + n + 1
             new_capacity == Max(MIN_NON_ZERO_CAP, Max(Wrap(s.capacity * 2), min_capacity))
         IN  ReserveGrow(M, s, new_capacity, nd)

\* push_str once reserve returned r: copy at off, advance len, restamp.
PushCopy(r, off, bs) ==
    IF r.out # "ok" THEN r
    ELSE Res(WriteByte(WriteBytes(r.mem, r.s.ptr, off, bs), r.s.ptr, r.s.len + Len(bs), 0),
             [r.s EXCEPT !.len = r.s.len + Len(bs)], "ok")

\* Mutant: the bytes are copied to the start of the buffer, not to its end.
MutPushStrAtStart(M, s, bs, nd, dbg) ==
    IF 0 \in Range(bs) THEN Res(M, s, "panic")
    ELSE IF bs = <<>> THEN Res(M, s, "ok")
    ELSE PushCopy(reserve(M, s, Len(bs), nd, dbg), 0, bs)

\* Mutant: the nul check comes after the reservation.
MutPushStrReservesFirst(M, s, bs, nd, dbg) ==
    IF bs = <<>> THEN Res(M, s, "ok")
    ELSE IF 0 \in Range(bs)
         THEN [reserve(M, s, Len(bs), nd, dbg) EXCEPT !.out = IF @ = "oom" THEN @ ELSE "panic"]
         ELSE PushCopy(reserve(M, s, Len(bs), nd, dbg), s.len, bs)

\* Mutant: the empty argument is not returned for early.
MutPushStrReservesForEmpty(M, s, bs, nd, dbg) ==
    IF 0 \in Range(bs) THEN Res(M, s, "panic")
    ELSE PushCopy(reserve(M, s, Len(bs), nd, dbg), s.len, bs)

push_str(M, s, bs, nd, dbg) ==
    IF 0 \in Range(bs) THEN Res(M, s, "panic")
    ELSE IF bs = <<>> THEN Res(M, s, "ok")
    ELSE PushCopy(reserve(M, s, Len(bs), nd, dbg), s.len, bs)

\* Mutant: the byte of the terminator is not kept.
MutShrinkToDropsNul(M, s, min_capacity, nd) ==
    LET min_cap == Max(s.len, min_capacity)
    IN  IF s.capacity <= min_cap THEN Res(M, s, "ok")
        ELSE IF nd.move /\ ~HasFresh(M) THEN Res(M, s, "oom")
        ELSE Res(Realloc(M, s.ptr, min_cap, nd.move, nd.junk),
                 [s EXCEPT !.ptr = ReallocPtr(M, s.ptr, nd.move), !.capacity = min_cap], "ok")

shrink_to(M, s, min_capacity, nd) ==
    LET min_cap == Max(s.len + 1, min_capacity)
    IN  IF s.capacity <= min_cap THEN Res(M, s, "ok")
        ELSE IF nd.move /\ ~HasFresh(M) THEN Res(M, s, "oom")
        ELSE Res(Realloc(M, s.ptr, min_cap, nd.move, nd.junk),
                 [s EXCEPT !.ptr = ReallocPtr(M, s.ptr, nd.move), !.capacity = min_cap], "ok")

shrink_to_fit(M, s, nd) == shrink_to(M, s, 0, nd)

\* Mutant: clearing gives the buffer up as well.
MutClearResets(M, s) ==
    IF len(s) > 0
    THEN Res(WriteByte(M, s.ptr, 0, 0), StringNew, "ok")
    ELSE Res(M, s, "ok")

clear(M, s) ==
    IF len(s) > 0
    THEN Res(WriteByte(M, s.ptr, 0, 0), [s EXCEPT !.len = 0], "ok")
    ELSE Res(M, s, "ok")

\* Mutant: the pointer is freed whatever the capacity.
MutDropAlways(M, s) == Free(M, s.ptr)

\* impl Drop for String: the heap afterwards.
drop_string(M, s) == IF s.capacity # 0 THEN Free(M, s.ptr) ELSE M


(***************************************************************************)
(* SpecString: String::new() followed by any sequence of the public        *)
(* operations, ended by drop or into_raw.                                  *)
(***************************************************************************)
ReserveArgs == {0, 1, MIN_NON_ZERO_CAP, (USIZE_MAX + 1) \div 2, USIZE_MAX}
PushArgs == {<<>>, <<1>>, <<2, 1>>, <<1, 0>>, <<0, 1>>, <<0>>}
ShrinkArgs == {0, 2, MIN_NON_ZERO_CAP + 1}

Op(op, out) == [op |-> op, out |-> out]

\* Ghost: after reserve(n) returned, the bytes of that n not yet pushed (counted
\* up to MaxLen + 1, more than the model ever pushes), with the buffer and the
\* heap addresses in use as reserve left them.
NoReserve == [n |-> 0 - 1, ptr |-> NullPtr, capacity |-> 0, used |-> {}]

Reserved(n, r) ==
    IF r.out = "ok"
    THEN [n |-> Min(n, MaxLen + 1), ptr |-> r.s.ptr, capacity |-> r.s.capacity, used |-> UsedSet(r.mem)]
    ELSE NoReserve

Spend(bs, r) ==
    IF r.out # "ok" THEN reserved
    ELSE IF Len(bs) <= reserved.n THEN [reserved EXCEPT !.n = @ - Len(bs)]
    ELSE NoReserve

\* Option<String> and Option<&str>.
None == [some |-> FALSE, s |-> StringNew]
Some(s) == [some |-> TRUE, s |-> s]
NoStr == [some |-> FALSE, val |-> <<>>]
SomeStr(val) == [some |-> TRUE, val |-> val]

ApiNew == [display_name_len |-> 0, display_name_capacity |-> 0]

ApiOp(op, out, ret, exp) == [op |-> op, out |-> out, ret |-> ret, exp |-> exp]

\* The components the other specifications drive, at rest.
ApiIdle ==
    /\ api = ApiNew
    /\ label = NullPtr
    /\ held = None
    /\ installed = NoStr
    /\ apiop = ApiOp("new", "ok", NoStr, NoStr)
    /\ apitrace = [only_replace |-> TRUE, nrep |-> 0, set_failed |-> FALSE]
    /\ icons = <<>>

SessIdle ==
    /\ slot = NullPtr
    /\ inst = <<>>
    /\ input = NullPtr
    /\ handed = {}
    /\ call = [ep |-> "none", beh |-> "none", how |-> "returned", ret |-> 0,
               pre |-> [slot |-> NullPtr, inst |-> <<>>, label |-> NullPtr, live |-> {}],
               info |-> [ran |-> FALSE]]

InitString ==
    /\ debug_assertions \in BOOLEAN
    /\ mem \in FilledMem
    /\ str = StringNew
    /\ phase = "live"
    /\ raw = NullPtr
    /\ pushed = <<>>
    /\ reserved = NoReserve
    /\ lastop = Op("new", "ok")
    /\ ApiIdle
    /\ SessIdle

\* Within the model's bounds: a heap address was left and the String is small.
InBounds(r) == r.out # "oom" /\ r.s.capacity <= MaxCap /\ r.s.len <= MaxLen

\* s.reserve(n), the allocator behaving as nd.
Reserve(n, nd) ==
    LET r == reserve(mem, str, n, nd, debug_assertions)
    IN  /\ InBounds(r)
        /\ mem' = r.mem
        /\ str' = r.s
        /\ reserved' = Reserved(n, r)
        /\ lastop' = Op("reserve", r.out)

StringReserve ==
    /\ phase = "live"
    /\ \E n \in ReserveArgs, nd \in AllocChoices : Reserve(n, nd)
    /\ UNCHANGED <<debug_assertions, phase, raw, pushed>>
    /\ UNCHANGED <<label, apiVars, sessVars>>

\* s.push_str(bs), the allocator behaving as nd.
PushStr(bs, nd) ==
    LET r == push_str(mem, str, bs, nd, debug_assertions)
    IN  /\ InBounds(r)
        /\ mem' = r.mem
        /\ str' = r.s
        /\ pushed' = IF r.out = "ok" THEN pushed \o bs ELSE pushed
        /\ reserved' = Spend(bs, r)
        /\ lastop' = Op("push_str", r.out)

StringPushStr ==
    /\ phase = "live"
    /\ \E bs \in PushArgs, nd \in AllocChoices : PushStr(bs, nd)
    /\ UNCHANGED <<debug_assertions, phase, raw>>
    /\ UNCHANGED <<label, apiVars, sessVars>>

\* s.shrink_to(m), the allocator behaving as nd.
ShrinkTo(m, nd) ==
    LET r == shrink_to(mem, str, m, nd)
    IN  /\ InBounds(r)
        /\ mem' = r.mem
        /\ str' = r.s
        /\ lastop' = Op("shrink_to", r.out)
        /\ reserved' = NoReserve

StringShrinkTo ==
    /\ phase = "live"
    /\ \E m \in ShrinkArgs, nd \in AllocChoices : ShrinkTo(m, nd)
    /\ UNCHANGED <<debug_assertions, phase, raw, pushed>>
    /\ UNCHANGED <<label, apiVars, sessVars>>

StringShrinkToFit ==
    /\ phase = "live"
    /\ \E nd \in AllocChoices :
          LET r == shrink_to_fit(mem, str, nd)
          IN  /\ InBounds(r)
              /\ mem' = r.mem
              /\ str' = r.s
              /\ lastop' = Op("shrink_to_fit", r.out)
              /\ reserved' = NoReserve
    /\ UNCHANGED <<debug_assertions, phase, raw, pushed>>
    /\ UNCHANGED <<label, apiVars, sessVars>>

StringClear ==
    /\ phase = "live"
    /\ LET r == clear(mem, str)
       IN  /\ mem' = r.mem
           /\ str' = r.s
           /\ lastop' = Op("clear", r.out)
    /\ pushed' = <<>>
    /\ reserved' = NoReserve
    /\ UNCHANGED <<debug_assertions, phase, raw>>
    /\ UNCHANGED <<label, apiVars, sessVars>>

StringDrop ==
    /\ phase = "live"
    /\ mem' = drop_string(mem, str)
    /\ phase' = "dropped"
    /\ lastop' = Op("drop", "ok")
    /\ UNCHANGED <<debug_assertions, str, raw, pushed, reserved>>
    /\ UNCHANGED <<label, apiVars, sessVars>>

StringIntoRaw ==
    /\ phase = "live"
    /\ LET r == into_raw(mem, str)
       IN  /\ r.out # "oom"
           /\ mem' = r.mem
           /\ raw' = r.ptr
    /\ phase' = "raw"
    /\ lastop' = Op("into_raw", "ok")
    /\ UNCHANGED <<debug_assertions, str, pushed, reserved>>
    /\ UNCHANGED <<label, apiVars, sessVars>>

\* The pointer into_raw returned is adopted again with the String's original
\* len and capacity.
StringFromRawParts ==
    /\ phase = "raw"
    /\ IF FromRawPartsPanics(raw, str.len, str.capacity, debug_assertions)
       THEN /\ phase' = "adopt_panicked"
            /\ lastop' = Op("from_raw_parts", "panic")
            /\ str' = str
       ELSE /\ phase' = "adopted"
            /\ lastop' = Op("from_raw_parts", "ok")
            /\ str' = from_raw_parts(raw, str.len, str.capacity)
    /\ UNCHANGED <<debug_assertions, mem, raw, pushed, reserved>>
    /\ UNCHANGED <<label, apiVars, sessVars>>

NextString ==
    \/ StringFromRawParts
    \/ StringReserve
    \/ StringPushStr
    \/ StringShrinkTo
    \/ StringShrinkToFit
    \/ StringClear
    \/ StringDrop
    \/ StringIntoRaw

vars == <<debug_assertions, mem, label, strVars, apiVars, sessVars>>

SpecString == InitString /\ [][NextString]_vars


(***************************************************************************)
(* Properties of SpecString.                                               *)
(***************************************************************************)
DataBytes == 1..MaxByte

FreedSet(M) == {a \in HeapAddrs : M.blk[a].st = "freed"}

\* C6: in every state reached from String::new() by reserve, push_str, clear,
\* shrink_to and shrink_to_fit the content holds no terminator byte; with
\* capacity > 0, len < capacity and the byte at index len is the terminator;
\* with capacity = 0, len = 0 and the buffer is the static terminator, no
\* allocation existing.
C6_StringInvariant ==
    phase = "live" =>
        /\ Range(as_str(mem, str)) \subseteq DataBytes
        /\ str.capacity > 0 =>
              /\ str.len < str.capacity
              /\ Live(mem, str.ptr)
              /\ ReadBytes(mem, str.ptr, str.len + 1)[str.len + 1] = 0
        /\ str.capacity = 0 =>
              /\ str.len = 0
              /\ str.ptr = PTR_TO_NULL
              /\ LiveSet(mem) = {}

C6_Witness ==
    /\ phase = "live"
    /\ str.len = 2
    /\ str.capacity = str.len + 1
    /\ FreedSet(mem) # {}

\* C7: after any sequence of push_str calls with terminator-free arguments,
\* interleaved with reserve and shrink_to, the content is the concatenation
\* of the arguments in call order, len is the sum of their lengths and the
\* terminator-inclusive view is the content followed by one terminator.
C7_PushStrConcatenates ==
    phase = "live" =>
        /\ as_str(mem, str) = pushed
        /\ len(str) = Len(pushed)
        /\ as_str_nul(mem, str) = pushed \o <<0>>
        /\ 0 \notin Range(pushed)

C7_Witness ==
    /\ phase = "live"
    /\ pushed = <<2, 1, 1>>
    /\ str.capacity < MIN_NON_ZERO_CAP

\* C10: every allocation the String obtained is accounted for exactly once:
\* while it lives it owns one block exactly when capacity > 0, drop leaves
\* no live block and frees nothing twice or foreign, into_raw leaves exactly
\* the returned block live.
C10_AllocationsAccounted ==
    /\ mem.fault = "none"
    /\ phase = "live" => LiveSet(mem) = (IF str.capacity > 0 THEN {str.ptr} ELSE {})
    /\ phase = "dropped" => LiveSet(mem) = {}
    /\ phase = "raw" => LiveSet(mem) = {raw}

C10_Witness ==
    /\ phase = "dropped"
    /\ Cardinality(FreedSet(mem)) >= 2

\* The safety contract of from_raw_parts(p, l, cap) on heap M.
AdoptPreconditions(M, p, l, cap) ==
    /\ cap # 0
    /\ l < cap
    /\ p # NullPtr
    /\ Live(M, p)
    /\ Len(M.blk[p].bytes) >= cap
    /\ Range(ReadBytes(M, p, l)) \subseteq DataBytes
    /\ ReadBytes(M, p, l + 1)[l + 1] = 0

\* C11: for every String reachable by the public operations, a
\* never-allocated one included, into_raw followed by from_raw_parts with the
\* original len and capacity meets the contract of from_raw_parts and yields
\* a String with the original content.
C11_RoundTripAdopts ==
    phase \in {"adopted", "adopt_panicked"} =>
        /\ AdoptPreconditions(mem, raw, str.len, str.capacity)
        /\ lastop.out = "ok"
        /\ str.ptr = raw
        /\ as_str(mem, str) = pushed

\* The heap addresses handed out so far.

\* C12: into_raw on a String of capacity 0 makes exactly one allocation, of
\* one byte holding the terminator, and returns it, never the static
\* terminator; on a String of capacity > 0 it returns the existing
\* allocation and allocates nothing.
C12_IntoRawAllocatesOnlyForEmpty ==
    [][(phase = "live" /\ phase' = "raw") =>
          IF str.capacity = 0
          THEN /\ raw' \notin {NullPtr, PTR_TO_NULL}
               /\ raw' \notin UsedSet(mem)
               /\ UsedSet(mem') = UsedSet(mem) \cup {raw'}
               /\ Live(mem', raw')
               /\ mem'.blk[raw'].bytes = <<0>>
               /\ mem'.fault = "none"
          ELSE /\ raw' = str.ptr
               /\ mem' = mem
               /\ Live(mem, raw')]_vars

C12_Witness ==
    /\ phase = "raw"
    /\ str.capacity = 0
    /\ raw # PTR_TO_NULL
    /\ Live(mem, raw)
    /\ mem.blk[raw].bytes = <<0>>

\* The block behind the String holds exactly its capacity.
Backed(M, s) == Live(M, s.ptr) /\ Len(M.blk[s.ptr].bytes) = s.capacity

\* What C22 says of a step that is s.reserve(n).
GrowsAsDocumented(n) ==
    IF n < str.capacity - str.len
    THEN lastop'.out = "ok" /\ str' = str /\ mem' = mem
    ELSE (str.len + n + 1 <= USIZE_MAX /\ 2 * str.capacity <= USIZE_MAX) =>
            /\ lastop'.out = "ok"
            /\ str'.capacity = Max(MIN_NON_ZERO_CAP, Max(2 * str.capacity, str.len + n + 1))
            /\ Backed(mem', str')
            /\ str'.len = str.len
            /\ as_str_nul(mem', str') = as_str_nul(mem, str)

\* C22: reserve(n) leaves the buffer unchanged when n is less than
\* capacity - len; otherwise the new capacity is exactly
\* max(8, 2 * old capacity, len + n + 1), the length and the content staying
\* as they were (where those sums fit a usize; C24 is about where they do not).
C22_ReserveGrowth ==
    [][(phase = "live" /\ lastop'.op = "reserve") =>
          \A n \in ReserveArgs, nd \in AllocChoices : Reserve(n, nd) => GrowsAsDocumented(n)]_vars

\* reserve(8) on a one-byte String of capacity 8 has doubled the capacity.
C22_Witness ==
    /\ phase = "live"
    /\ lastop = Op("reserve", "ok")
    /\ reserved.n = MaxLen + 1
    /\ str.capacity = 2 * MIN_NON_ZERO_CAP
    /\ Backed(mem, str)
    /\ as_str_nul(mem, str) = <<1, 0>>
    /\ FreedSet(mem) = {}

\* C23: after reserve(n) returned, push_str calls whose lengths total at most
\* n allocate and reallocate nothing: pointer, capacity and the set of heap
\* addresses ever used stay as reserve left them.
C23_ReservedPushesDoNotAllocate ==
    (phase = "live" /\ reserved.n >= 0) =>
        /\ mem.fault = "none"
        /\ str.ptr = reserved.ptr
        /\ str.capacity = reserved.capacity
        /\ Backed(mem, str)
        /\ UsedSet(mem) = reserved.used

\* Two pushes have used up what a reserve set aside.
C23_Witness ==
    /\ phase = "live"
    /\ lastop = Op("push_str", "ok")
    /\ reserved.n = 1
    /\ pushed = <<1, 2, 1>>
    /\ as_str(mem, str) = pushed

\* C24: when len + n + 1 or the doubling of the capacity overflows, reserve
\* panics and leaves the buffer unchanged.
C24_OverflowFailsLoudly ==
    [][(phase = "live" /\ lastop'.op = "reserve") =>
          \A n \in ReserveArgs, nd \in AllocChoices :
             (/\ Reserve(n, nd)
              /\ n >= str.capacity - str.len
              /\ (str.len + n + 1 > USIZE_MAX \/ 2 * str.capacity > USIZE_MAX))
             => (lastop'.out = "panic" /\ str' = str /\ mem' = mem)]_vars

\* C25: push_str with an argument holding a nul byte anywhere panics before
\* anything is changed: length, capacity, pointer and heap stay as they were.
C25_NulPushChangesNothing ==
    [][(phase = "live" /\ lastop'.op = "push_str") =>
          \A bs \in {b \in PushArgs : 0 \in Range(b)}, nd \in AllocChoices :
             PushStr(bs, nd) => (lastop'.out = "panic" /\ str' = str /\ mem' = mem /\ pushed' = pushed)]_vars

\* A push with a nul byte was refused on a String with content.
C25_Witness ==
    /\ phase = "live"
    /\ lastop = Op("push_str", "panic")
    /\ pushed = <<2, 1>>
    /\ as_str_nul(mem, str) = <<2, 1, 0>>

\* C26: push_str("") returns with the String and the heap unchanged.
C26_EmptyPushIsNoOp ==
    [][(phase = "live" /\ lastop'.op = "push_str") =>
          \A nd \in AllocChoices :
             PushStr(<<>>, nd) => (lastop'.out = "ok" /\ str' = str /\ mem' = mem)]_vars

\* push_str("") returned on a String that never allocated.
C26_Witness ==
    /\ phase = "live"
    /\ lastop = Op("push_str", "ok")
    /\ str = StringNew
    /\ UsedSet(mem) = {}

\* C27: clear() sets the length to 0 and puts the terminator first, with
\* pointer, capacity and every heap block's size and state unchanged; a
\* String that never allocated stays at capacity 0 with no heap block.
C27_ClearKeepsBuffer ==
    [][(phase = "live" /\ lastop'.op = "clear") =>
          /\ lastop'.out = "ok"
          /\ str' = [str EXCEPT !.len = 0]
          /\ as_str_nul(mem', str') = <<0>>
          /\ mem'.fault = "none"
          /\ \A a \in HeapAddrs :
                /\ mem'.blk[a].st = mem.blk[a].st
                /\ Len(mem'.blk[a].bytes) = Len(mem.blk[a].bytes)
          /\ str.capacity = 0 => (str' = StringNew /\ mem' = mem)]_vars

\* A grown String that held <<2, 1>> was cleared.
C27_Witness ==
    /\ phase = "live"
    /\ lastop = Op("clear", "ok")
    /\ str.len = 0
    /\ str.capacity = 2 * MIN_NON_ZERO_CAP
    /\ Backed(mem, str)
    /\ mem.blk[str.ptr].bytes[1] = 0
    /\ mem.blk[str.ptr].bytes[2] = 1

\* What C28 says of a step that is s.shrink_to(m).
ShrinksAsDocumented(m) ==
    IF str.capacity <= Max(str.len + 1, m)
    THEN lastop'.out = "ok" /\ str' = str /\ mem' = mem
    ELSE /\ lastop'.out = "ok"
         /\ str'.capacity = Max(str.len + 1, m)
         /\ Backed(mem', str')
         /\ str'.len = str.len
         /\ as_str_nul(mem', str') = as_str_nul(mem, str)

\* C28: shrink_to(m) changes nothing when capacity <= max(len + 1, m) and
\* otherwise makes the capacity exactly max(len + 1, m) with the content
\* kept; shrink_to_fit is shrink_to(0), so on an empty allocated String it
\* leaves capacity 1.
C28_ShrinkTo ==
    [][phase = "live" =>
          /\ lastop'.op = "shrink_to" =>
                \A m \in ShrinkArgs, nd \in AllocChoices : ShrinkTo(m, nd) => ShrinksAsDocumented(m)
          /\ lastop'.op = "shrink_to_fit" =>
                /\ ShrinksAsDocumented(0)
                /\ (str.len = 0 /\ str.capacity > 0) => str'.capacity = 1]_vars

\* shrink_to_fit after clear: the buffer is one byte, the terminator.
C28_Witness ==
    /\ phase = "live"
    /\ lastop = Op("shrink_to_fit", "ok")
    /\ str.len = 0
    /\ str.capacity = 1
    /\ Live(mem, str.ptr)
    /\ mem.blk[str.ptr].bytes = <<0>>

(***************************************************************************)
(* Api (src/src/api.rs): the handle over the host's display-name slot.     *)
(* a is the handle [display_name_len, display_name_capacity], lab the      *)
(* pointer stored in the slot.  Every operation yields                     *)
(* [mem, api, label, ret, out], ret being the Option<String> returned.     *)
(***************************************************************************)
ApiRes(M, a, lab, ret, out) == [mem |-> M, api |-> a, label |-> lab, ret |-> ret, out |-> out]

\* Api::display_name
display_name(M, a, lab) ==
    IF lab = NullPtr THEN NoStr ELSE SomeStr(ReadBytes(M, lab, a.display_name_len))

\* change_display_name once the new value was surrendered (ir) and the
\* shadow fields updated (a1): the old triple is adopted.
ChangeAdopt(ir, a1, old_ptr, old_len, old_capacity, dbg) ==
    IF ir.out = "oom" THEN ApiRes(ir.mem, a1, old_ptr, None, "oom")
    ELSE IF old_ptr = NullPtr THEN ApiRes(ir.mem, a1, ir.ptr, None, "ok")
    ELSE IF FromRawPartsPanics(old_ptr, old_len, old_capacity, dbg)
         THEN ApiRes(ir.mem, a1, ir.ptr, None, "panic")
    ELSE ApiRes(ir.mem, a1, ir.ptr, Some(from_raw_parts(old_ptr, old_len, old_capacity)), "ok")

change_display_name(M, a, lab, dn, dbg) ==
    ChangeAdopt(IF dn.some THEN into_raw(M, dn.s) ELSE [mem |-> M, ptr |-> NullPtr, out |-> "ok"],
                IF dn.some
                THEN [display_name_len |-> len(dn.s), display_name_capacity |-> capacity(dn.s)]
                ELSE a,
                lab, a.display_name_len, a.display_name_capacity, dbg)

take_display_name(M, a, lab, dbg) == change_display_name(M, a, lab, None, dbg)

replace_display_name(M, a, lab, s, dbg) == change_display_name(M, a, lab, Some(s), dbg)

\* write!(buf, "{display_name}"): one push_str per piece the Display
\* implementation writes; the first panic ends it.
RECURSIVE write_fmt(_, _, _, _)
write_fmt(r, chunks, nd, dbg) ==
    IF chunks = <<>> \/ r.out # "ok" THEN r
    ELSE write_fmt(push_str(r.mem, r.s, Head(chunks), nd, dbg), Tail(chunks), nd, dbg)

\* set_display_name, last step: the Option replace_display_name returned is dropped.
SetInstalled(r) ==
    IF r.out # "ok" THEN r
    ELSE ApiRes(IF r.ret.some THEN drop_string(r.mem, r.ret.s) ELSE r.mem,
                r.api, r.label, None, "ok")

\* set_display_name once the text was written (w) into the taken buffer (t).
SetWritten(t, w, dbg) ==
    IF w.out = "oom" THEN ApiRes(w.mem, t.api, t.label, None, "oom")
    ELSE IF w.out = "panic"
         \* buf is dropped by the unwinding
         THEN ApiRes(drop_string(w.mem, w.s), t.api, t.label, None, "panic")
    ELSE SetInstalled(replace_display_name(w.mem, t.api, t.label, w.s, dbg))

\* set_display_name once the old label was taken (t).
SetTaken(t, chunks, nd, dbg) ==
    IF t.out # "ok" THEN t
    ELSE SetWritten(t, write_fmt(clear(t.mem, IF t.ret.some THEN t.ret.s ELSE StringNew),
                                 chunks, nd, dbg), dbg)

set_display_name(M, a, lab, chunks, nd, dbg) ==
    SetTaken(take_display_name(M, a, lab, dbg), chunks, nd, dbg)

(***************************************************************************)
(* SpecApi: Api::new on an unset label, then any sequence of               *)
(* take_display_name, replace_display_name and set_display_name.  The      *)
(* caller keeps at most one returned String (held) and either drops it or  *)
(* installs it again.                                                      *)
(***************************************************************************)
\* The Strings a caller builds to install: never allocated, allocated and
\* empty, or with content.
with_capacity(M, n, nd, dbg) == reserve(M, StringNew, n, nd, dbg)

string_from(M, bs, nd, dbg) == push_str(M, StringNew, bs, nd, dbg)

FromArgs == {<<1>>, <<2, 1>>}
SetArgs == {<< <<1>> >>, << <<2>>, <<1>> >>, << <<>> >>, << <<1>>, <<1, 0>> >>}

\* String::new(), String::with_capacity(0) and String::from(bs), the fresh
\* block's bytes being junk.
NewStrings ==
    {[kind |-> "new", bs |-> <<>>, junk |-> 0]}
    \cup [kind : {"with_capacity"}, bs : {<<>>}, junk : JunkBytes]
    \cup [kind : {"from"}, bs : FromArgs, junk : JunkBytes]

BuildString(M, b, dbg) ==
    LET nd == [move |-> FALSE, junk |-> b.junk]
    IN  CASE b.kind = "new" -> Res(M, StringNew, "ok")
          [] b.kind = "with_capacity" -> with_capacity(M, 0, nd, dbg)
          [] b.kind = "from" -> string_from(M, b.bs, nd, dbg)

\* What the caller sees of a returned Option<String>.
Seen(M, ret) == IF ret.some THEN SomeStr(as_str(M, ret.s)) ELSE NoStr

\* The caller keeps the returned String or drops it at once.
AfterReturn(M, ret, keep) == IF ret.some /\ ~keep THEN drop_string(M, ret.s) ELSE M

Consecutive == 3

\* The replace calls made so far, counted while no other call was made.
CountReplace(tr) ==
    [tr EXCEPT !.nrep = IF tr.only_replace /\ tr.nrep < Consecutive THEN tr.nrep + 1 ELSE tr.nrep]

Mixed(tr) == [tr EXCEPT !.only_replace = FALSE, !.nrep = 0]

InitApi ==
    /\ debug_assertions \in BOOLEAN
    /\ mem \in FilledMem
    /\ ApiIdle
    /\ str = StringNew /\ phase = "live" /\ raw = NullPtr /\ pushed = <<>> /\ reserved = NoReserve
    /\ lastop = Op("new", "ok")
    /\ SessIdle

\* The call returned r: the caller keeps or drops the returned String.
ApiFinish(r, op, keep) ==
    /\ r.out # "oom"
    /\ mem' = AfterReturn(r.mem, r.ret, keep)
    /\ api' = r.api
    /\ label' = r.label
    /\ held' = IF keep THEN r.ret ELSE None
    /\ apiop' = ApiOp(op, r.out, Seen(r.mem, r.ret), installed)

\* replace_display_name(b.s), b.s having been built in heap b.mem.
ReplaceBuilt(b, keep) ==
    /\ b.out = "ok"
    /\ ApiFinish(replace_display_name(b.mem, api, label, b.s, debug_assertions), "replace", keep)
    /\ installed' = SomeStr(as_str(b.mem, b.s))

SetFinish(r, text) ==
    /\ r.out # "oom"
    /\ r.out = "ok" => Len(text) <= MaxLen
    /\ mem' = r.mem
    /\ api' = r.api
    /\ label' = r.label
    /\ apiop' = ApiOp("set", r.out, NoStr, installed)
    /\ installed' = IF r.out = "ok" THEN SomeStr(text) ELSE NoStr
    /\ apitrace' = [Mixed(apitrace) EXCEPT !.set_failed = @ \/ r.out # "ok"]

RECURSIVE Concat(_)
Concat(chunks) == IF chunks = <<>> THEN <<>> ELSE Head(chunks) \o Concat(Tail(chunks))

\* replace_display_name(a freshly built String)
ApiReplaceNew ==
    /\ ~held.some
    /\ \E new \in NewStrings, keep \in BOOLEAN :
          ReplaceBuilt(BuildString(mem, new, debug_assertions), keep)
    /\ apitrace' = CountReplace(apitrace)
    /\ UNCHANGED <<debug_assertions, strVars, sessVars, icons>>

\* replace_display_name(the String an earlier call returned)
ApiReplaceHeld ==
    /\ held.some
    /\ ReplaceBuilt(Res(mem, held.s, "ok"), TRUE)
    /\ apitrace' = CountReplace(apitrace)
    /\ UNCHANGED <<debug_assertions, strVars, sessVars, icons>>

ApiTake ==
    /\ ~held.some
    /\ \E keep \in BOOLEAN :
          ApiFinish(take_display_name(mem, api, label, debug_assertions), "take", keep)
    /\ installed' = NoStr
    /\ apitrace' = Mixed(apitrace)
    /\ UNCHANGED <<debug_assertions, strVars, sessVars, icons>>

ApiSet ==
    /\ \E chunks \in SetArgs, nd \in AllocChoices :
          SetFinish(set_display_name(mem, api, label, chunks, nd, debug_assertions),
                    Concat(chunks))
    /\ UNCHANGED <<debug_assertions, held, strVars, sessVars, icons>>

\* The caller drops the String it kept.
ApiDropHeld ==
    /\ held.some
    /\ mem' = drop_string(mem, held.s)
    /\ held' = None
    /\ UNCHANGED <<debug_assertions, api, label, installed, apiop, apitrace, strVars, sessVars, icons>>

NextApi ==
    \/ ApiReplaceNew
    \/ ApiReplaceHeld
    \/ ApiTake
    \/ ApiSet
    \/ ApiDropHeld

SpecApi == InitApi /\ [][NextApi]_vars


(***************************************************************************)
(* Icon requests (src/src/api.rs).  icons[uid] is the request the host     *)
(* numbered uid: held is whether the mode still owns its IconRequest,      *)
(* pending whether the host's fetcher still keeps the request for          *)
(* collection, gets the number of icon_fetcher::get calls made with the    *)
(* uid and out what retrieve_icon returned.                                *)
(***************************************************************************)
IconNames == {<<1>>, <<1, 0, 1>>}

\* icon_fetcher::get answers null, a good surface or one in an error state.
IconResults == {"not_found", "surface", "surface_error"}

\* query_icon_cstr / query_icon_wh_cstr: the host registers a request and
\* numbers it; the IconRequest wraps the number.
query_icon_cstr(ic) ==
    Append(ic, [held |-> TRUE, pending |-> TRUE, gets |-> 0, out |-> "none"])

\* query_icon / query_icon_wh: CString::new(name).expect(..) comes first.
query_icon(ic, name) == IF 0 \in Range(name) THEN ic ELSE query_icon_cstr(ic)

\* retrieve_icon takes the IconRequest by value and collects it from the host.
retrieve_icon(ic, uid, res) ==
    [ic EXCEPT ![uid] = [held |-> FALSE, pending |-> FALSE, gets |-> @.gets + 1, out |-> res]]

\* An IconRequest going out of scope: the struct has no Drop, the host is
\* told nothing.
drop_request(ic, uid) == [ic EXCEPT ![uid].held = FALSE]

HeldRequests == {uid \in DOMAIN icons : icons[uid].held}

InitIcons ==
    /\ debug_assertions \in BOOLEAN
    /\ mem = EmptyMem
    /\ ApiIdle
    /\ str = StringNew /\ phase = "live" /\ raw = NullPtr /\ pushed = <<>> /\ reserved = NoReserve
    /\ lastop = Op("new", "ok")
    /\ SessIdle

IconQuery ==
    /\ Len(icons) < MaxIcons
    /\ \E name \in IconNames : icons' = query_icon(icons, name)
    /\ UNCHANGED <<debug_assertions, mem, label, api, held, installed, apiop, apitrace,
                   strVars, sessVars>>

IconRetrieve ==
    /\ \E uid \in HeldRequests, res \in IconResults : icons' = retrieve_icon(icons, uid, res)
    /\ UNCHANGED <<debug_assertions, mem, label, api, held, installed, apiop, apitrace,
                   strVars, sessVars>>

IconDrop ==
    /\ \E uid \in HeldRequests : icons' = drop_request(icons, uid)
    /\ UNCHANGED <<debug_assertions, mem, label, api, held, installed, apiop, apitrace,
                   strVars, sessVars>>

NextIcons ==
    \/ IconQuery
    \/ IconRetrieve
    \/ IconDrop

SpecIcons == InitIcons /\ [][NextIcons]_vars

\* No uid is passed to icon_fetcher::get twice.
RetrievedAtMostOnce == \A uid \in DOMAIN icons : icons[uid].gets <= 1

\* A request the host still keeps is one the mode still owns.
NoRequestLeftBehind == \A uid \in DOMAIN icons : icons[uid].pending => icons[uid].held

\* C30: every icon request is retrieved at most once, and a request dropped
\* without being retrieved is not left pending in the host's icon fetcher.
C30_RequestsRetrievedOrReleased == RetrievedAtMostOnce /\ NoRequestLeftBehind


(***************************************************************************)
(* Properties of SpecApi.                                                  *)
(***************************************************************************)
\* The blocks the label slot keeps alive.
LabelBlocks == IF label = NullPtr THEN {} ELSE {label}

\* C8: over three consecutive replace_display_name calls with arbitrary owned
\* Strings (a never-allocated one included) each call returns the value the
\* call before it installed, and once the returned values are dropped every
\* displaced allocation has been freed exactly once: nothing is freed twice
\* and only the installed label is still allocated.
C8_ReplaceFreesDisplacedOnce ==
    (apitrace.only_replace /\ apitrace.nrep >= 1) =>
        /\ apiop.out = "ok"
        /\ apiop.ret = apiop.exp
        /\ mem.fault = "none"
        /\ ~held.some => LiveSet(mem) = LabelBlocks

\* C9: after any sequence of take, replace and successful set calls on a
\* handle whose label started unset, display_name() is None if nothing was
\* installed or the last call was take, and otherwise the content installed
\* last; take returns the value stored before it and leaves the label unset.
C9_DisplayNameIsLastInstalled ==
    ~apitrace.set_failed =>
        /\ display_name(mem, api, label) = installed
        /\ apiop.op = "take" =>
              /\ apiop.out = "ok"
              /\ apiop.ret = apiop.exp
              /\ label = NullPtr

\* C31: in every state reached through take, replace and set, whenever the
\* label slot is non-null the handle's shadow length is the length of the
\* stored text and its shadow capacity the size of the stored allocation, so
\* that the triple satisfies the preconditions of from_raw_parts.
C31_ShadowMatchesLabel ==
    label # NullPtr =>
        /\ Live(mem, label)
        /\ api.display_name_capacity = Len(mem.blk[label].bytes)
        /\ api.display_name_len < api.display_name_capacity
        /\ ReadBytes(mem, label, api.display_name_len + 1)[api.display_name_len + 1] = 0
        /\ AdoptPreconditions(mem, label, api.display_name_len, api.display_name_capacity)


\* replace_display_name(String::from(<<1>>)) in the state a step leads to
\* installs its value: it returns None and display_name() is the new text.
ReplaceWorksNext ==
    HasFresh(mem') =>
        LET b == string_from(mem', <<1>>, [move |-> FALSE, junk |-> 0], debug_assertions)
            r == replace_display_name(b.mem, api', label', b.s, debug_assertions)
        IN  /\ r.out = "ok"
            /\ ~r.ret.some
            /\ r.mem.fault = "none"
            /\ display_name(r.mem, r.api, r.label) = SomeStr(<<1>>)

\* What C36 says of a step that is set_display_name with a text holding a nul.
SetFailsCleanly ==
    /\ apiop'.out = "panic"
    /\ label' = NullPtr
    /\ mem'.fault = "none"
    /\ label # NullPtr => label \in FreedSet(mem')
    /\ LiveSet(mem') = LiveSet(mem) \ {label}
    /\ display_name(mem', api', label') = NoStr
    /\ ReplaceWorksNext

NulTexts == {chunks \in SetArgs : 0 \in Range(Concat(chunks))}

\* C36: when set_display_name fails because the text holds a nul byte, the
\* label slot is left null, the label stored before has been freed exactly
\* once, display_name() is None and a following replace_display_name installs
\* its value normally.
C36_FailedSetLeavesLabelUnset ==
    [][apiop'.op = "set" =>
          \A chunks \in NulTexts, nd \in AllocChoices :
             SetFinish(set_display_name(mem, api, label, chunks, nd, debug_assertions),
                       Concat(chunks))
             => SetFailsCleanly]_vars

\* The same, for a label whose shadow capacity is that of its allocation.
FailedSetCleanWithAllocatedLabel ==
    [][(apiop'.op = "set" /\ (label = NullPtr \/ api.display_name_capacity # 0)) =>
          \A chunks \in NulTexts, nd \in AllocChoices :
             SetFinish(set_display_name(mem, api, label, chunks, nd, debug_assertions),
                       Concat(chunks))
             => SetFailsCleanly]_vars

(***************************************************************************)
(* The entry points (src/src/lib.rs).  A hook of the user's Mode returns,  *)
(* panics, or panics with a payload whose own drop panics.                 *)
(***************************************************************************)
Behaviours == {"return", "panic", "panic_payload_panics"}

\* Mutant: the payload is dropped without the AbortOnDrop guard armed.
MutCatchPanicNoGuard(beh) ==
    CASE beh = "return" -> "ok"
      [] beh = "panic" -> "err"
      [] beh = "panic_payload_panics" -> "unwind"

\* catch_panic: Ok, Err(()), or the process aborts while the payload is dropped.
catch_panic(beh) ==
    CASE beh = "return" -> "ok"
      [] beh = "panic" -> "err"
      [] beh = "panic_payload_panics" -> "abort"

\* Mutant: the panic is swallowed and a default returned.
MutAbortOnPanicCatches(beh) == IF beh = "return" THEN "ok" ELSE "err"

\* abort_on_panic: the guard is dropped by any unwinding.
abort_on_panic(beh) == IF beh = "return" THEN "ok" ELSE "abort"

\* How the extern "C" call ends, from what the containment yielded.
Ends(caught) ==
    CASE caught = "abort" -> "aborted"
      [] caught = "unwind" -> "unwound"
      [] OTHER -> "returned"

\* The process is running and the host may call in.
Running == call.how = "returned"

\* The session is Active: the slot holds a live instance.
Active == Running /\ slot # NullPtr

\* What a call found: the slot, the instances, the label and the live blocks.
Pre == [slot |-> slot, inst |-> inst, label |-> label, live |-> LiveSet(mem)]

Call(ep, beh, how, ret, info) ==
    [ep |-> ep, beh |-> beh, how |-> how, ret |-> ret, pre |-> Pre, info |-> info]

\* Mode::DISPLAY_NAME, nul-terminated (assert_c_str), and what g_strdup copies.
DISPLAY_NAME == <<1, 2, 0>>

RECURSIVE UpToNul(_)
UpToNul(bs) == IF bs = <<>> \/ Head(bs) = 0 THEN <<>> ELSE <<Head(bs)>> \o UpToNul(Tail(bs))

\* libc::strlen
StrLen(M, p) == Len(UpToNul(M.blk[p].bytes))

\* Mutant: the copy is cut to the empty string.
MutStrdupCopiesNothing(M, text) == [M EXCEPT !.blk[Fresh(M)] = Block("live", <<0>>)]

\* g_strdup(text): a fresh block holding text and its terminator.
g_strdup(M, text) == [M EXCEPT !.blk[Fresh(M)] = Block("live", UpToNul(text) \o <<0>>)]

MaxInstances == 2

(***************************************************************************)
(* init                                                                    *)
(***************************************************************************)
InitBehaviours == {"ok", "err", "panic", "panic_payload_panics"}

\* Mutant: an Err of the initializer is taken for an instance.
MutInitCaughtTakesErr(beh) ==
    CASE beh \in {"ok", "err"} -> "ok"
      [] beh = "panic" -> catch_panic("panic")
      [] beh = "panic_payload_panics" -> catch_panic("panic_payload_panics")

\* What catch_panic(|| T::init(api).map(Box::new)) yields.
InitCaught(beh) ==
    CASE beh = "ok" -> "ok"
      [] beh = "err" -> "ok_err"
      [] beh = "panic" -> catch_panic("panic")
      [] beh = "panic_payload_panics" -> catch_panic("panic_payload_panics")

\* Mutant: the instance is boxed but the slot is not set.
MutInitForgetsSlot(beh, caught) ==
    IF caught = "ok"
    THEN /\ Len(inst) < MaxInstances
         /\ HasFresh(mem)
         /\ inst' = Append(inst, 0)
         /\ slot' = slot
         /\ mem' = g_strdup(mem, DISPLAY_NAME)
         /\ label' = Fresh(mem)
         /\ call' = Call("init", beh, "returned", 1, [ran |-> TRUE])
    ELSE /\ call' = Call("init", beh, Ends(caught), 0, [ran |-> TRUE])
         /\ UNCHANGED <<slot, inst, mem, label>>

\* The slot was null and the initializer ended as `caught`.
InitFresh(beh, caught) ==
    IF caught = "ok"
    THEN /\ Len(inst) < MaxInstances
         /\ HasFresh(mem)
         /\ inst' = Append(inst, 0)
         /\ slot' = Len(inst) + 1
         /\ mem' = g_strdup(mem, DISPLAY_NAME)
         /\ label' = Fresh(mem)
         /\ call' = Call("init", beh, "returned", 1, [ran |-> TRUE])
    ELSE /\ call' = Call("init", beh, Ends(caught), 0, [ran |-> TRUE])
         /\ UNCHANGED <<slot, inst, mem, label>>

\* Mutant: the display name is duplicated again.
MutInitAgainStrdups(s) ==
    /\ HasFresh(mem)
    /\ call' = Call("init", "none", "returned", 1, [ran |-> FALSE])
    /\ slot' = s
    /\ mem' = g_strdup(mem, DISPLAY_NAME)
    /\ label' = Fresh(mem)
    /\ UNCHANGED inst

\* The slot already held s: the body of the `if` is skipped.
InitAgain(s) ==
    /\ call' = Call("init", "none", "returned", 1, [ran |-> FALSE])
    /\ slot' = s
    /\ UNCHANGED <<inst, mem, label>>

EpInit ==
    /\ Running
    /\ \E beh \in InitBehaviours :
          IF slot = NullPtr
          THEN InitFresh(beh, InitCaught(beh))
          ELSE InitAgain(slot)
    /\ UNCHANGED <<debug_assertions, input, handed, strVars, apiVars>>

(***************************************************************************)
(* destroy                                                                 *)
(***************************************************************************)
\* Mutant: the slot keeps the pointer to the dropped instance.
MutDestroyKeepsSlot(beh, caught) ==
    /\ inst' = [inst EXCEPT ![slot] = @ + 1]
    /\ slot' = slot
    /\ call' = Call("destroy", beh, Ends(caught), 0, [ran |-> TRUE])

\* The instance in the slot is dropped inside catch_panic.
DestroyDrop(beh, caught) ==
    /\ inst' = [inst EXCEPT ![slot] = @ + 1]
    /\ slot' = IF Ends(caught) = "returned" THEN NullPtr ELSE slot
    /\ call' = Call("destroy", beh, Ends(caught), 0, [ran |-> TRUE])

EpDestroy ==
    /\ Running
    /\ \E beh \in Behaviours :
          IF slot = NullPtr
          THEN /\ call' = Call("destroy", "none", "returned", 0, [ran |-> FALSE])
               /\ UNCHANGED <<slot, inst>>
          ELSE DestroyDrop(beh, catch_panic(beh))
    /\ UNCHANGED <<debug_assertions, mem, label, input, handed, strVars, apiVars>>

(***************************************************************************)
(* get_num_entries                                                         *)
(***************************************************************************)
\* c_uint is modelled CUintBits wide.
CUintBits == 3
C_UINT_MAX == Pow2(CUintBits) - 1

EntryCounts == {0, 1, C_UINT_MAX, C_UINT_MAX + 1, USIZE_MAX}

\* Mutant: the count is cast as `as c_uint` would.
MutTruncateCUint(n) == n % (C_UINT_MAX + 1)

\* usize -> c_uint: try_into().unwrap_or(c_uint::MAX)
SaturateCUint(n) == IF n <= C_UINT_MAX THEN n ELSE C_UINT_MAX

\* Mutant: a caught panic yields the maximum count.
MutNumEntriesDefaultsToMax(beh, n, caught) ==
    call' = Call("get_num_entries", beh, Ends(caught),
                 IF caught = "ok" THEN SaturateCUint(n) ELSE C_UINT_MAX,
                 [ran |-> TRUE, n |-> n])

NumEntries(beh, n, caught) ==
    call' = Call("get_num_entries", beh, Ends(caught),
                 IF caught = "ok" THEN SaturateCUint(n) ELSE 0, [ran |-> TRUE, n |-> n])

\* entries() returns a count, or panics.
EntryChoices ==
    [beh : {"return"}, n : EntryCounts] \cup [beh : {"panic", "panic_payload_panics"}, n : {0}]

EpGetNumEntries ==
    /\ Active
    /\ \E c \in EntryChoices : NumEntries(c.beh, c.n, catch_panic(c.beh))
    /\ UNCHANGED <<debug_assertions, mem, label, slot, inst, input, handed, strVars, apiVars>>

(***************************************************************************)
(* result                                                                  *)
(***************************************************************************)
\* The host's menu bits and mode codes (rofi's mode.h, through ffi::menu and ffi).
OK == 65536
CANCEL == 131072
CUSTOM_INPUT == 524288
ENTRY_DELETE == 1048576
CUSTOM_COMMAND == 8388608
COMPLETE == 16777216
CUSTOM_ACTION == 268435456
LOWER_MASK == 65535
EXIT == 1000
NEXT_DIALOG == 1001
RELOAD_DIALOG == 1002
PREVIOUS_DIALOG == 1003
RESET_DIALOG == 1004

RECURSIVE BitAnd(_, _)
BitAnd(a, b) ==
    IF a = 0 \/ b = 0 THEN 0
    ELSE (a % 2) * (b % 2) + 2 * BitAnd(a \div 2, b \div 2)

\* Option<usize>
NoLine == [some |-> FALSE, val |-> 0]
SomeLine(n) == [some |-> TRUE, val |-> n]

Selected(selected_line) ==
    IF selected_line = C_UINT_MAX THEN NoLine ELSE SomeLine(selected_line)

Ev(tag, alt, selected, number) ==
    [tag |-> tag, alt |-> alt, selected |-> selected, number |-> number]

\* The match on mretv panicked before an Event was built.
NoEvent == Ev("panic", FALSE, NoLine, 0)

\* `mretv & CUSTOM_ACTION != 0`
Alt(mretv) == BitAnd(mretv, CUSTOM_ACTION) # 0

\* Mutant: a missing selection is taken for line 0.
MutDecodeDefaultsLine(mretv, selected) ==
    IF mretv = CANCEL THEN Ev("Cancel", FALSE, selected, 0)
    ELSE IF BitAnd(mretv, OK) # 0
         THEN Ev("Ok", Alt(mretv), IF selected.some THEN selected ELSE SomeLine(0), 0)
    ELSE IF BitAnd(mretv, CUSTOM_INPUT) # 0 THEN Ev("CustomInput", Alt(mretv), selected, 0)
    ELSE IF mretv = COMPLETE THEN Ev("Complete", FALSE, selected, 0)
    ELSE IF mretv = ENTRY_DELETE
         THEN Ev("DeleteEntry", FALSE, IF selected.some THEN selected ELSE SomeLine(0), 0)
    ELSE IF BitAnd(mretv, CUSTOM_COMMAND) # 0
         THEN Ev("CustomCommand", FALSE, selected, BitAnd(mretv, LOWER_MASK) % 256)
    ELSE NoEvent

\* The match on mretv, arm after arm.
Decode(mretv, selected) ==
    IF mretv = CANCEL THEN Ev("Cancel", FALSE, selected, 0)
    ELSE IF BitAnd(mretv, OK) # 0
         THEN IF selected.some THEN Ev("Ok", Alt(mretv), selected, 0) ELSE NoEvent
    ELSE IF BitAnd(mretv, CUSTOM_INPUT) # 0 THEN Ev("CustomInput", Alt(mretv), selected, 0)
    ELSE IF mretv = COMPLETE THEN Ev("Complete", FALSE, selected, 0)
    ELSE IF mretv = ENTRY_DELETE
         THEN IF selected.some THEN Ev("DeleteEntry", FALSE, selected, 0) ELSE NoEvent
    ELSE IF BitAnd(mretv, CUSTOM_COMMAND) # 0
         THEN Ev("CustomCommand", FALSE, selected, BitAnd(mretv, LOWER_MASK) % 256)
    ELSE NoEvent

Act(tag, mode) == [tag |-> tag, mode |-> mode]

\* Mutant: Next is encoded as Reload.
MutActionCodeNextIsReload(action) ==
    CASE action.tag = "SetMode" -> action.mode
      [] action.tag \in {"Next", "Reload"} -> RELOAD_DIALOG
      [] action.tag = "Previous" -> PREVIOUS_DIALOG
      [] action.tag = "Reset" -> RESET_DIALOG
      [] action.tag = "Exit" -> EXIT

\* The match on the Action.
ActionCode(action) ==
    CASE action.tag = "SetMode" -> action.mode
      [] action.tag = "Next" -> NEXT_DIALOG
      [] action.tag = "Previous" -> PREVIOUS_DIALOG
      [] action.tag = "Reload" -> RELOAD_DIALOG
      [] action.tag = "Reset" -> RESET_DIALOG
      [] action.tag = "Exit" -> EXIT

\* Mutant: a caught panic stands for Reload.
MutResultDefaultsToReload(caught, action) ==
    IF caught = "ok" THEN ActionCode(action) ELSE RELOAD_DIALOG

\* `.unwrap_or(Action::Exit)` and the match on the Action.
ResultCode(caught, action) ==
    IF caught = "ok" THEN ActionCode(action) ELSE EXIT

Mretvs ==
    {CANCEL, OK, OK + CUSTOM_ACTION, CUSTOM_INPUT, CUSTOM_INPUT + CUSTOM_ACTION,
     COMPLETE, ENTRY_DELETE, CUSTOM_COMMAND + 5, CUSTOM_COMMAND + 256 + 7, 0,
     CANCEL + OK, OK + CUSTOM_INPUT, CUSTOM_INPUT + CUSTOM_COMMAND + 3,
     ENTRY_DELETE + CUSTOM_COMMAND, ENTRY_DELETE + 1}

SelectedLines == {0, C_UINT_MAX}

InputTexts == {<<>>, <<1>>}

Actions ==
    {Act("Next", 0), Act("Previous", 0), Act("Reload", 0), Act("Reset", 0), Act("Exit", 0),
     Act("SetMode", 0), Act("SetMode", 999), Act("SetMode", 1000), Act("SetMode", 1002),
     Act("SetMode", 65535)}

ReactEdits == {"keep", "clear", "push", "take"}

\* What the user's react does: edits the input, then returns an Action or panics.
ReactChoices ==
    [edit : {"keep"}, beh : {"return"}, action : Actions, move : {FALSE}]
    \cup [edit : ReactEdits, beh : Behaviours, action : {Act("Reload", 0)}, move : {FALSE}]
    \cup [edit : {"push"}, beh : Behaviours, action : {Act("Reload", 0)}, move : {TRUE}]

\* One call of result: the host's arguments and what react does.  Every event
\* is paired with a react that keeps the input, every react with an Ok event.
ResultInputs ==
    [mretv : Mretvs, selected_line : SelectedLines, text : {<<1>>},
     c : {[edit |-> "keep", beh |-> "return", action |-> Act("Reload", 0), move |-> FALSE]}]
    \cup [mretv : {OK}, selected_line : {0}, text : InputTexts, c : ReactChoices]

\* The user's edit of `input: &mut String`.
ReactEdit(M, s, c, dbg) ==
    CASE c.edit = "keep" -> Res(M, s, "ok")
      [] c.edit = "clear" -> clear(M, s)
      [] c.edit = "push" -> push_str(M, s, <<2>>, [move |-> c.move, junk |-> 0], dbg)
      [] c.edit = "take" -> Res(drop_string(M, s), StringNew, "ok")

\* What is recorded of a result call: its arguments, the decoded event and
\* what react did.
ResultInfo(i, ev, ran) ==
    [ran |-> ran, ev |-> ev, mretv |-> i.mretv, selected_line |-> i.selected_line,
     text |-> i.text, edit |-> i.c.edit, action |-> i.c.action]

\* Mutant: the input is surrendered to the host whatever its length.
MutResultAlwaysHandsBack(i, ev, r) ==
    /\ r.out = "ok"
    /\ IF i.c.beh = "return"
       THEN /\ into_raw(r.mem, r.s).out = "ok"
            /\ mem' = into_raw(r.mem, r.s).mem
            /\ input' = into_raw(r.mem, r.s).ptr
       ELSE /\ mem' = drop_string(r.mem, r.s)
            /\ input' = NullPtr
    /\ call' = Call("result", i.c.beh, Ends(catch_panic(i.c.beh)),
                    ResultCode(catch_panic(i.c.beh), i.c.action), ResultInfo(i, ev, TRUE))

\* Mutant: an unwinding does not drop the adopted input.
MutResultPanicLeaks(i, ev, r) ==
    /\ r.out = "ok"
    /\ IF i.c.beh = "return" /\ ~is_empty(r.s)
       THEN /\ mem' = into_raw(r.mem, r.s).mem
            /\ input' = into_raw(r.mem, r.s).ptr
       ELSE /\ mem' = IF i.c.beh = "return" THEN drop_string(r.mem, r.s) ELSE r.mem
            /\ input' = NullPtr
    /\ call' = Call("result", i.c.beh, Ends(catch_panic(i.c.beh)),
                    ResultCode(catch_panic(i.c.beh), i.c.action), ResultInfo(i, ev, TRUE))

\* After react: a non-empty input goes back into *input, an empty one is dropped;
\* an unwinding drops it.
ResultHandsBack(i, ev, r) ==
    /\ r.out = "ok"
    /\ IF i.c.beh = "return" /\ ~is_empty(r.s)
       THEN /\ mem' = into_raw(r.mem, r.s).mem
            /\ input' = into_raw(r.mem, r.s).ptr
       ELSE /\ mem' = drop_string(r.mem, r.s)
            /\ input' = NullPtr
    /\ call' = Call("result", i.c.beh, Ends(catch_panic(i.c.beh)),
                    ResultCode(catch_panic(i.c.beh), i.c.action), ResultInfo(i, ev, TRUE))

\* The closure of result, *input pointing at the host's buffer input_ptr.
\* from_raw_parts(input_ptr, len, len + 1) meets its debug assertions for a
\* non-null buffer: len <= len + 1 and len + 1 # 0.
ResultClosure(M, input_ptr, i, ev) ==
    IF ev = NoEvent
    THEN /\ mem' = M
         /\ input' = input_ptr
         /\ call' = Call("result", "panic", Ends(catch_panic("panic")),
                         ResultCode(catch_panic("panic"), i.c.action),
                         ResultInfo(i, ev, FALSE))
    ELSE ResultHandsBack(i, ev,
             ReactEdit(M, from_raw_parts(input_ptr, StrLen(M, input_ptr),
                                         StrLen(M, input_ptr) + 1), i.c, debug_assertions))

EpResult ==
    /\ Active
    /\ input = NullPtr
    /\ HasFresh(mem)
    /\ \E i \in ResultInputs :
          ResultClosure(g_strdup(mem, i.text \o <<0>>), Fresh(mem), i,
                        Decode(i.mretv, Selected(i.selected_line)))
    /\ UNCHANGED <<debug_assertions, label, slot, inst, handed, strVars, apiVars>>

\* The host releases the input buffer it owns.
HostFreeInput ==
    /\ Running
    /\ input # NullPtr
    /\ mem' = Free(mem, input)
    /\ input' = NullPtr
    /\ UNCHANGED <<debug_assertions, label, slot, inst, handed, call, strVars, apiVars>>

\* The host releases a string a call handed to it.
HostFreeHanded ==
    /\ Running
    /\ \E p \in handed :
          /\ mem' = Free(mem, p)
          /\ handed' = handed \ {p}
    /\ UNCHANGED <<debug_assertions, label, slot, inst, input, call, strVars, apiVars>>

(***************************************************************************)
(* get_display_value                                                       *)
(***************************************************************************)
\* Style::MARKUP.bits()
MARKUP == 8

\* The host's arguments: state and attr_list may be null, and *attr_list is
\* expected to be null on entry.
DisplayArgs ==
    [state_null : BOOLEAN, attr : {"null", "empty_slot", "filled_slot"}, get_entry : {0, 1}]

\* The user's hooks: the one named by `at` ends as `beh`, the others return.
DisplayChoices ==
    [beh : {"return"}, at : {"content"}, style : {0}, attrs : {"empty"},
     content : {b \in NewStrings : b.bs = <<>> /\ b.junk = 0}]
    \cup [beh : {"return"}, at : {"content"}, style : {MARKUP}, attrs : {"list"},
          content : [kind : {"from"}, bs : FromArgs, junk : {0}]]
    \cup [beh : {"panic", "panic_payload_panics"}, at : {"style", "attributes", "content"},
          style : {0}, attrs : {"list"}, content : {[kind |-> "new", bs |-> <<>>, junk |-> 0]}]

\* One call: every probe with hooks that return, and the full probe with
\* each hook panicking.
DisplayInputs ==
    [a : DisplayArgs, c : {c \in DisplayChoices : c.beh = "return"}]
    \cup [a : {[state_null |-> FALSE, attr |-> "empty_slot", get_entry |-> 1]},
          c : {c \in DisplayChoices : c.beh # "return"}]

\* Where the closure stops: at a panicking hook, at the assertion, or not at all.
DisplayStop(a, c) ==
    IF ~a.state_null /\ c.beh # "return" /\ c.at = "style" THEN "style"
    ELSE IF a.attr = "filled_slot" THEN "assert"
    ELSE IF a.attr = "empty_slot" /\ c.beh # "return" /\ c.at = "attributes" THEN "attributes"
    ELSE IF a.get_entry # 0 /\ c.beh # "return" /\ c.at = "content" THEN "content"
    ELSE "none"

\* How the closure ends.
DisplayBeh(c, stop) ==
    CASE stop = "none" -> "return"
      [] stop = "assert" -> "panic"
      [] OTHER -> c.beh

\* The attributes hook returned and its list was stored into *attr_list.
AttrStored(a, stop) == a.attr = "empty_slot" /\ stop \in {"none", "content"}

\* The list of the Attributes the hook returned: null for an empty
\* collection, else the GList node g_list_prepend allocated.
AttrList(M, a, c, stop) ==
    IF AttrStored(a, stop) /\ c.attrs = "list" THEN Fresh(M) ELSE NullPtr

\* Mutant: the Attributes is dropped at the end of the closure (no ManuallyDrop).
MutAttrDroppedAtEnd(M, a, c, stop) ==
    IF AttrStored(a, stop) /\ c.attrs = "list" THEN Free(Malloc(M, 1, 1), Fresh(M)) ELSE M

\* The heap once `*attr_list = ManuallyDrop::new(attributes).list` ran.
AttrMem(M, a, c, stop) ==
    IF AttrStored(a, stop) /\ c.attrs = "list" THEN Malloc(M, 1, 1) ELSE M

\* What the host holds once the list was stored.
AttrHanded(a, c, stop) ==
    IF AttrList(mem, a, c, stop) = NullPtr THEN handed
    ELSE handed \cup {AttrList(mem, a, c, stop)}

\* *state and *attr_list after the call, and which hooks were asked.
DisplayOut(a, c, stop) ==
    [state |-> IF ~a.state_null /\ stop # "style" THEN c.style ELSE -1,
     attr |-> IF AttrStored(a, stop) THEN c.attrs ELSE "unwritten",
     list |-> AttrList(mem, a, c, stop),
     asked_content |-> a.get_entry # 0 /\ stop \in {"none", "content"},
     args |-> a, style |-> c.style, attrs |-> c.attrs, content |-> c.content.bs,
     stop |-> stop, ran |-> TRUE]

\* entry_content(line).into_raw(): r is the String the user built.
DisplayContent(a, c, stop, r) ==
    /\ r.out = "ok"
    /\ into_raw(r.mem, r.s).out = "ok"
    /\ mem' = into_raw(r.mem, r.s).mem
    /\ handed' = AttrHanded(a, c, stop) \cup {into_raw(r.mem, r.s).ptr}
    /\ call' = Call("get_display_value", "return", "returned", into_raw(r.mem, r.s).ptr,
                    DisplayOut(a, c, stop))

\* The closure once the style and the attributes were dealt with, M1 being
\* the heap then.
DisplayEntry(a, c, stop, M1) ==
    IF stop = "none" /\ a.get_entry # 0
    THEN /\ HasFresh(M1)
         /\ DisplayContent(a, c, stop, BuildString(M1, c.content, debug_assertions))
    ELSE /\ call' = Call("get_display_value", DisplayBeh(c, stop),
                         Ends(catch_panic(DisplayBeh(c, stop))), NullPtr,
                         DisplayOut(a, c, stop))
         /\ mem' = M1
         /\ handed' = AttrHanded(a, c, stop)

DisplayValue(a, c, stop) ==
    /\ (AttrStored(a, stop) /\ c.attrs = "list") => HasFresh(mem)
    /\ DisplayEntry(a, c, stop, AttrMem(mem, a, c, stop))

EpGetDisplayValue ==
    /\ Active
    /\ \E i \in DisplayInputs : DisplayValue(i.a, i.c, DisplayStop(i.a, i.c))
    /\ UNCHANGED <<debug_assertions, label, slot, inst, input, strVars, apiVars>>

(***************************************************************************)
(* token_match                                                             *)
(***************************************************************************)
\* The user's matches: a constant, or what Matcher::matches says of a text.
MatchChoices ==
    [beh : Behaviours, uses : {"true", "false"}, text : {<<1>>}]
    \cup [beh : {"return"}, uses : {"matches"}, text : {<<>>, <<1>>, <<1, 0, 1>>}]

\* One call: the host's token list (null or not, and what rofi's matching
\* would answer) matters to a hook that asks the Matcher.
TokenInputs ==
    [tokens_null : BOOLEAN, host_match : BOOLEAN, c : {c \in MatchChoices : c.uses = "matches"}]
    \cup [tokens_null : {FALSE}, host_match : {FALSE},
          c : {c \in MatchChoices : c.uses # "matches"}]

\* Mutant: rofi is asked whether or not there is a token list.
MutMatchesAsksAlways(tokens_null, text, host_match) ==
    IF 0 \in Range(text) THEN [panics |-> TRUE, val |-> FALSE, asked |-> FALSE]
    ELSE [panics |-> FALSE, val |-> host_match, asked |-> TRUE]

\* Matcher::matches: [panics, val, asked]; asked is whether helper_token_match
\* was called, and rofi answers host_match.
matches(tokens_null, text, host_match) ==
    IF 0 \in Range(text) THEN [panics |-> TRUE, val |-> FALSE, asked |-> FALSE]
    ELSE IF tokens_null THEN [panics |-> FALSE, val |-> TRUE, asked |-> FALSE]
    ELSE [panics |-> FALSE, val |-> host_match, asked |-> TRUE]

\* How the closure ends.
MatchBeh(c, m) ==
    IF c.beh # "return" THEN c.beh
    ELSE IF c.uses = "matches" /\ m.panics THEN "panic"
    ELSE "return"

MatchVal(c, m) ==
    CASE c.uses = "true" -> TRUE
      [] c.uses = "false" -> FALSE
      [] c.uses = "matches" -> m.val

TokenMatch(i, m, beh) ==
    call' = Call("token_match", beh, Ends(catch_panic(beh)),
                 IF catch_panic(beh) = "ok" /\ MatchVal(i.c, m) THEN 1 ELSE 0,
                 [ran |-> TRUE, uses |-> i.c.uses, tokens_null |-> i.tokens_null,
                  text |-> i.c.text, asked |-> i.c.uses = "matches" /\ m.asked])

EpTokenMatch ==
    /\ Active
    /\ \E i \in TokenInputs :
          TokenMatch(i, matches(i.tokens_null, i.c.text, i.host_match),
                     MatchBeh(i.c, matches(i.tokens_null, i.c.text, i.host_match)))
    /\ UNCHANGED <<debug_assertions, mem, label, slot, inst, input, handed, strVars, apiVars>>

(***************************************************************************)
(* get_icon                                                                *)
(***************************************************************************)
\* A cairo surface of the host's, behind a pointer outside the modelled heap.
SurfacePtr == MaxAllocs + 2

Heights == {-1, 0, 16}

IconChoices == [beh : Behaviours, icon : {NullPtr, SurfacePtr}]

\* How the closure ends: a negative height panics before entry_icon is called.
IconBeh(height, c) == IF height < 0 THEN "panic" ELSE c.beh

GetIcon(height, c, beh) ==
    call' = Call("get_icon", beh, Ends(catch_panic(beh)),
                 IF catch_panic(beh) = "ok" THEN c.icon ELSE NullPtr,
                 [ran |-> height >= 0])

EpGetIcon ==
    /\ Active
    /\ \E height \in Heights, c \in IconChoices : GetIcon(height, c, IconBeh(height, c))
    /\ UNCHANGED <<debug_assertions, mem, label, slot, inst, input, handed, strVars, apiVars>>

(***************************************************************************)
(* get_completion, preprocess_input, get_message                           *)
(***************************************************************************)
\* A hook that returns a String, or panics.
StringChoices ==
    [beh : {"return"}, built : {b \in NewStrings : b.junk = 0}]
    \cup [beh : {"panic", "panic_payload_panics"}, built : {[kind |-> "new", bs |-> <<>>, junk |-> 0]}]

\* What is recorded of a hook that returned the String r.s: its text and
\* which implementation of the hook ran.
Hooked(r, hook) == [ran |-> TRUE, text |-> as_str(r.mem, r.s), hook |-> hook]

\* The String r.s is surrendered to the host whatever its length.
HandOver(ep, r, hook) ==
    /\ r.out = "ok"
    /\ into_raw(r.mem, r.s).out = "ok"
    /\ mem' = into_raw(r.mem, r.s).mem
    /\ handed' = handed \cup {into_raw(r.mem, r.s).ptr}
    /\ call' = Call(ep, "return", "returned", into_raw(r.mem, r.s).ptr, Hooked(r, hook))

\* Mutant: an empty String is surrendered like any other.
MutHandOverEmptyToo(ep, r, hook) == HandOver(ep, r, hook)

\* An empty String is dropped and null returned; another is surrendered.
HandOverUnlessEmpty(ep, r, hook) ==
    /\ r.out = "ok"
    /\ IF is_empty(r.s)
       THEN /\ mem' = drop_string(r.mem, r.s)
            /\ handed' = handed
            /\ call' = Call(ep, "return", "returned", NullPtr, Hooked(r, hook))
       ELSE HandOver(ep, r, hook)

\* The closure did not return: caught says what became of the panic.
NothingHanded(ep, beh, caught, ran) ==
    /\ call' = Call(ep, beh, Ends(caught), NullPtr, [ran |-> ran])
    /\ UNCHANGED <<mem, handed>>

EpGetCompletion ==
    /\ Active
    /\ \E c \in StringChoices :
          IF c.beh = "return"
          THEN HandOver("get_completion", BuildString(mem, c.built, debug_assertions),
                        "custom")
          ELSE NothingHanded("get_completion", c.beh, abort_on_panic(c.beh), TRUE)
    /\ UNCHANGED <<debug_assertions, label, slot, inst, input, strVars, apiVars>>

\* Mode::preprocess_input: the user's own, or the default `input.into()`
\* applied to the host's text.
PreprocessChoices ==
    [hook : {"custom"}, c : StringChoices]
    \cup [hook : {"default"},
          c : [beh : {"return"}, built : [kind : {"from"}, bs : InputTexts, junk : {0}]]]

EpPreprocessInput ==
    /\ Active
    /\ \E valid_utf8 \in BOOLEAN, p \in PreprocessChoices :
          IF ~valid_utf8
          THEN NothingHanded("preprocess_input", "panic", abort_on_panic("panic"), FALSE)
          ELSE IF p.c.beh = "return"
          THEN HandOverUnlessEmpty("preprocess_input",
                                   BuildString(mem, p.c.built, debug_assertions), p.hook)
          ELSE NothingHanded("preprocess_input", p.c.beh, abort_on_panic(p.c.beh), TRUE)
    /\ UNCHANGED <<debug_assertions, label, slot, inst, input, strVars, apiVars>>

EpGetMessage ==
    /\ Active
    /\ \E c \in StringChoices :
          IF c.beh = "return"
          THEN HandOverUnlessEmpty("get_message", BuildString(mem, c.built, debug_assertions),
                                   "custom")
          ELSE NothingHanded("get_message", c.beh, catch_panic(c.beh), TRUE)
    /\ UNCHANGED <<debug_assertions, label, slot, inst, input, strVars, apiVars>>

(***************************************************************************)
(* Spec: the host drives the ten entry points of one Mode.                 *)
(***************************************************************************)
Init ==
    /\ debug_assertions \in BOOLEAN
    /\ mem = EmptyMem
    /\ SessIdle
    /\ ApiIdle
    /\ str = StringNew /\ phase = "live" /\ raw = NullPtr /\ pushed = <<>> /\ reserved = NoReserve
    /\ lastop = Op("new", "ok")

Next ==
    \/ EpInit
    \/ EpDestroy
    \/ EpGetNumEntries
    \/ EpResult
    \/ EpGetDisplayValue
    \/ EpTokenMatch
    \/ EpGetIcon
    \/ EpGetCompletion
    \/ EpPreprocessInput
    \/ EpGetMessage
    \/ HostFreeInput
    \/ HostFreeHanded

Spec == Init /\ [][Next]_vars

(***************************************************************************)
(* Properties of the entry points                                          *)
(***************************************************************************)
EntryPoints ==
    {"init", "destroy", "get_num_entries", "result", "get_display_value", "token_match",
     "get_icon", "get_completion", "preprocess_input", "get_message"}

\* The user's code panicked in the last call.
Panicked == call.beh \in {"panic", "panic_payload_panics"}

\* C1: whatever entry point the host calls and however the user's code
\* behaves (returns, panics, panics with a payload whose drop panics), the
\* call either returns to the host or the process is aborted; it never
\* unwinds into the host, and it aborts only when the user's code panicked.
C1_NoUnwindIntoHost ==
    /\ call.ep \in EntryPoints \cup {"none"}
    /\ call.how \in {"returned", "aborted"}
    /\ call.how = "aborted" => Panicked
    /\ (call.ep \in {"get_completion", "preprocess_input"} /\ Panicked) => call.how = "aborted"

C1_Witness ==
    /\ call.ep = "result"
    /\ call.beh = "panic_payload_panics"
    /\ call.how = "aborted"

\* C2: when react panics in result on an Active session and the call
\* returns, it returns the code of Action::Exit, and the slot still holds
\* the same instance, which has not been dropped; a plain panic always returns.
C2_ReactPanicExits ==
    (call.ep = "result" /\ call.info.ran /\ Panicked) =>
        /\ call.beh = "panic" => call.how = "returned"
        /\ call.how = "returned" =>
              /\ call.ret = EXIT
              /\ slot # NullPtr
              /\ slot = call.pre.slot
              /\ inst = call.pre.inst
              /\ inst[slot] = 0

C2_Witness ==
    /\ call.ep = "result"
    /\ call.info.ran
    /\ call.beh = "panic"
    /\ call.ret = EXIT
    /\ slot # NullPtr

\* C3: init on a null slot whose initializer returns Ok returns true, puts a
\* newly boxed live instance in the slot, and leaves the host's display-name
\* storage pointing at a fresh copy of DISPLAY_NAME.
C3_InitOkActivates ==
    (call.ep = "init" /\ call.pre.slot = NullPtr /\ call.beh = "ok") =>
        /\ call.how = "returned"
        /\ call.ret = 1
        /\ slot # NullPtr
        /\ slot \notin DOMAIN call.pre.inst
        /\ slot \in DOMAIN inst
        /\ inst[slot] = 0
        /\ label \in LiveSet(mem) \ call.pre.live
        /\ mem.blk[label].bytes = DISPLAY_NAME

C3_Witness ==
    /\ call.ep = "init"
    /\ call.beh = "ok"
    /\ call.pre.slot = NullPtr
    /\ slot # NullPtr
    /\ label # NullPtr

DestroyedNothing == call.ep = "destroy" /\ call.pre.slot = NullPtr

\* A destroy that found an instance and returned.
DestroyedInstance ==
    call.ep = "destroy" /\ call.pre.slot # NullPtr /\ call.how = "returned"

\* An init that found the slot null after an earlier session was destroyed.
InitAfterDestroy ==
    call.ep = "init" /\ call.pre.slot = NullPtr /\ call.pre.inst # <<>>

\* C5: destroy on an Active session drops the instance exactly once and
\* nulls the slot, also when the drop panics; destroy on a null slot changes
\* nothing; no instance is ever dropped twice; and an init after a destroy
\* behaves as an init from Uninitialized.
C5_DestroyDropsOnce ==
    /\ \A i \in DOMAIN inst : inst[i] <= 1
    /\ DestroyedInstance =>
          /\ slot = NullPtr
          /\ inst = [call.pre.inst EXCEPT ![call.pre.slot] = 1]
          /\ call.pre.inst[call.pre.slot] = 0
    /\ (call.ep = "destroy" /\ call.beh \in {"return", "panic"}) => call.how = "returned"
    /\ DestroyedNothing =>
          /\ call.how = "returned"
          /\ slot = NullPtr
          /\ inst = call.pre.inst
          /\ label = call.pre.label
          /\ LiveSet(mem) \subseteq call.pre.live
    /\ (InitAfterDestroy /\ call.beh = "ok") =>
          /\ call.ret = 1
          /\ slot = Len(call.pre.inst) + 1
          /\ inst = Append(call.pre.inst, 0)
          /\ mem.blk[label].bytes = DISPLAY_NAME
    /\ (InitAfterDestroy /\ call.beh \in {"err", "panic"}) =>
          /\ call.ret = 0
          /\ slot = NullPtr
          /\ inst = call.pre.inst

C5_Witness ==
    /\ Len(inst) = 2
    /\ inst[1] = 1
    /\ inst[2] = 1
    /\ call.ep = "destroy"
    /\ call.beh = "panic"
    /\ slot = NullPtr

(***************************************************************************)
(* Properties of result                                                    *)
(***************************************************************************)
\* The bit `flag` (a power of two) is set in `code`.
HasFlag(code, flag) == (code \div flag) % 2 = 1

\* The event kind the first matching pattern gives, "none" when none matches.
FirstMatch(code) ==
    IF code = CANCEL THEN "Cancel"
    ELSE IF HasFlag(code, OK) THEN "Ok"
    ELSE IF HasFlag(code, CUSTOM_INPUT) THEN "CustomInput"
    ELSE IF code = COMPLETE THEN "Complete"
    ELSE IF code = ENTRY_DELETE THEN "DeleteEntry"
    ELSE IF HasFlag(code, CUSTOM_COMMAND) THEN "CustomCommand"
    ELSE "none"

\* The last call was a result call that decoded an event.
Decoded == call.ep = "result" /\ call.info.ev # NoEvent

\* C13: result decodes the event by first match in the order CANCEL (equal),
\* OK (flag), CUSTOM_INPUT (flag), COMPLETE (equal), ENTRY_DELETE (equal),
\* CUSTOM_COMMAND (flag); alt is the CUSTOM_ACTION flag; the number of a
\* CustomCommand equals the code's bits under LOWER_MASK; selected is None
\* exactly when the selection index is the maximum, otherwise that index.
C13_DecodesByFirstMatch ==
    Decoded =>
        /\ call.info.ev.tag = FirstMatch(call.info.mretv)
        /\ call.info.ev.tag \in {"Ok", "CustomInput"} =>
              (call.info.ev.alt <=> HasFlag(call.info.mretv, CUSTOM_ACTION))
        /\ call.info.ev.tag = "CustomCommand" =>
              call.info.ev.number = call.info.mretv % (LOWER_MASK + 1)
        /\ call.info.ev.selected.some <=> call.info.selected_line # C_UINT_MAX
        /\ call.info.ev.selected.some => call.info.ev.selected.val = call.info.selected_line

\* C14: a raw code that matches none of the event patterns is fatal: the
\* call does not return an action code to the host.
C14_UnrecognizedCodeIsFatal ==
    (call.ep = "result" /\ FirstMatch(call.info.mretv) = "none") => call.how # "returned"

\* What react's edit leaves of the host's text.
Edited(text, edit) ==
    CASE edit = "keep" -> text
      [] edit = "clear" -> <<>>
      [] edit = "push" -> text \o <<2>>
      [] edit = "take" -> <<>>

\* A step that is a result call in which react returned normally.
ResultReturned ==
    /\ input = NullPtr
    /\ UsedSet(mem') # UsedSet(mem)
    /\ call'.ep = "result"
    /\ call'.info.ran
    /\ call'.beh = "return"

\* C15: when react returns normally, the input as react left it goes back
\* into the host's input slot iff it is non-empty; an empty one is freed
\* exactly once and the slot left null; either way the host's allocation has
\* exactly one owner afterwards (the slot, or nobody once freed).
C15_InputHandedBackIffNonEmpty ==
    [][ResultReturned =>
          /\ mem'.fault = "none"
          /\ IF Edited(call'.info.text, call'.info.edit) # <<>>
             THEN /\ input' # NullPtr
                  /\ Live(mem', input')
                  /\ ReadBytes(mem', input',
                               Len(Edited(call'.info.text, call'.info.edit)) + 1)
                        = Edited(call'.info.text, call'.info.edit) \o <<0>>
                  /\ LiveSet(mem') = LiveSet(mem) \cup {input'}
             ELSE /\ input' = NullPtr
                  /\ LiveSet(mem') = LiveSet(mem)
                  /\ Fresh(mem) \in FreedSet(mem')]_vars

C15_Witness ==
    /\ call.ep = "result"
    /\ call.beh = "return"
    /\ call.info.edit = "clear"
    /\ call.info.text # <<>>
    /\ input = NullPtr
    /\ FreedSet(mem) # {}

\* The actions the host's encoding has room for.
ValidActions ==
    {Act("Next", 0), Act("Previous", 0), Act("Reload", 0), Act("Reset", 0), Act("Exit", 0)}
    \cup {Act("SetMode", n) : n \in 0..(EXIT - 1)}

\* The last call was a result call in which react returned `action`.
Reacted == call.ep = "result" /\ call.info.ran /\ call.beh = "return"

\* C16: for SetMode indices below 1000 the integer result returns encodes
\* the action injectively: SetMode(n) is n, the five other actions are five
\* distinct sentinels, none of which is a SetMode(n) with n < 1000.
C16_ActionCodeInjective ==
    (Reacted /\ call.info.action \in ValidActions) =>
        /\ call.ret = ActionCode(call.info.action)
        /\ call.info.action.tag = "SetMode" => call.ret = call.info.action.mode
        /\ \A b \in ValidActions : ActionCode(b) = call.ret => b = call.info.action
        /\ Cardinality({ActionCode(b) : b \in ValidActions}) = Cardinality(ValidActions)

C16_Witness ==
    /\ Reacted
    /\ call.info.action = Act("SetMode", 999)
    /\ call.ret = 999

\* C17: SetMode(n) with n >= 1000 is a contract violation that fails fast:
\* result does not return to the host, in particular not with an integer the
\* host reads as another action.
C17_SetModeOutOfRangeIsFatal ==
    (Reacted /\ call.info.action.tag = "SetMode" /\ call.info.action.mode >= EXIT) =>
        /\ call.how # "returned"
        /\ call.ret \notin {ActionCode(b) : b \in ValidActions}

(***************************************************************************)
(* Properties of the panic defaults                                        *)
(***************************************************************************)
\* C18: a panic in completed during get_completion, or in preprocess_input
\* (invalid UTF-8 in the host's input included) during the preprocess-input
\* entry point, aborts the process; the entry point returns only when
\* nothing panicked.
C18_NoDefaultMeansAbort ==
    call.ep \in {"get_completion", "preprocess_input"} =>
        /\ Panicked => (call.how = "aborted" /\ ~Running)
        /\ call.how = "returned" => call.beh = "return"

C18_Witness ==
    /\ call.ep = "preprocess_input"
    /\ ~call.info.ran
    /\ call.beh = "panic"
    /\ call.how = "aborted"

\* The entry points that turn a caught panic into a default value.
DefaultingEntryPoints ==
    {"get_num_entries", "get_display_value", "token_match", "get_icon", "get_message"}

\* C19: a panic inside get_num_entries, get_display_value, token_match,
\* get_icon or get_message makes the entry point return its default (0 or
\* null), the process keeps running, and the slot still holds the same
\* live instance.
C19_PanicYieldsSafeDefault ==
    (call.ep \in DefaultingEntryPoints /\ call.beh = "panic") =>
        /\ call.how = "returned"
        /\ Running
        /\ call.ret = 0
        /\ call.ret = NullPtr
        /\ slot # NullPtr
        /\ slot = call.pre.slot
        /\ inst = call.pre.inst
        /\ inst[slot] = 0

C19_Witness ==
    /\ call.ep = "get_num_entries"
    /\ call.beh = "panic"
    /\ call.ret = 0
    /\ slot # NullPtr

\* C20: get_num_entries returns the reported count when it fits c_uint and
\* c_uint::MAX when it does not, never the count cut to c_uint's width.
C20_CountSaturates ==
    (call.ep = "get_num_entries" /\ call.beh = "return") =>
        /\ call.how = "returned"
        /\ call.info.n <= C_UINT_MAX => call.ret = call.info.n
        /\ call.info.n > C_UINT_MAX => call.ret = C_UINT_MAX
        /\ call.ret <= C_UINT_MAX

C20_Witness ==
    /\ call.ep = "get_num_entries"
    /\ call.beh = "return"
    /\ call.info.n = C_UINT_MAX + 1
    /\ call.ret = C_UINT_MAX

(***************************************************************************)
(* Properties of get_display_value                                         *)
(***************************************************************************)
\* The last call was a get_display_value in which no hook panicked.
Probed == call.ep = "get_display_value" /\ call.info.stop = "none"

\* A style-only probe: a state slot, no attribute slot, get_entry == 0.
StyleOnlyProbe ==
    /\ Probed
    /\ ~call.info.args.state_null
    /\ call.info.args.attr = "null"
    /\ call.info.args.get_entry = 0

\* A full probe: a state slot, an empty attribute slot, get_entry != 0.
FullProbe ==
    /\ Probed
    /\ ~call.info.args.state_null
    /\ call.info.args.attr = "empty_slot"
    /\ call.info.args.get_entry # 0

\* C21: a style-only probe writes only the style bits and returns null
\* without asking for the entry's content; a full probe writes the style
\* bits, stores the attribute list in the host's slot and never frees it,
\* and returns the content as a buffer surrendered to the host.
C21_ProbesReportWhatIsAsked ==
    /\ mem.fault = "none"
    /\ StyleOnlyProbe =>
          /\ call.how = "returned"
          /\ call.info.state = call.info.style
          /\ call.info.attr = "unwritten"
          /\ call.info.list = NullPtr
          /\ ~call.info.asked_content
          /\ call.ret = NullPtr
          /\ LiveSet(mem) \subseteq call.pre.live
    /\ FullProbe =>
          /\ call.how = "returned"
          /\ call.info.state = call.info.style
          /\ call.info.attr = call.info.attrs
          /\ call.info.attrs = "list" <=> call.info.list # NullPtr
          /\ call.info.list \in handed => Live(mem, call.info.list)
          /\ call.info.asked_content
          /\ call.ret \in HeapAddrs \ call.pre.live
          /\ call.ret # call.info.list
          /\ call.ret \in handed =>
                /\ Live(mem, call.ret)
                /\ ReadBytes(mem, call.ret, Len(call.info.content) + 1)
                      = call.info.content \o <<0>>

C21_Witness ==
    /\ FullProbe
    /\ call.info.list \in handed
    /\ call.ret \in handed
    /\ call.info.content # <<>>
    /\ call.info.state = MARKUP


\* A token_match call whose hook returned what Matcher::matches said of a text
\* without a nul byte, the host having passed no token list.
NullMatcherAsked ==
    /\ call.ep = "token_match"
    /\ call.info.uses = "matches"
    /\ call.info.tokens_null
    /\ 0 \notin Range(call.info.text)

AliveInstances == {i \in DOMAIN inst : inst[i] = 0}

\* C32: while the process runs, across init, destroy and the other entry
\* points, with initializer failures and caught panics, the slot is non-null
\* exactly when one instance is alive (the one it points to); no instance is
\* alive while the slot is null; no instance is ever dropped twice.
C32_SlotIffOneInstance ==
    /\ \A i \in DOMAIN inst : inst[i] <= 1
    /\ Running =>
          /\ slot # NullPtr <=> Cardinality(AliveInstances) = 1
          /\ slot = NullPtr => AliveInstances = {}
          /\ slot # NullPtr => AliveInstances = {slot}

\* A second session is Active after the first was destroyed, and a hook of
\* it has just panicked.
C32_Witness ==
    /\ Running
    /\ slot = 2
    /\ inst = <<1, 0>>
    /\ call.ep \notin {"init", "destroy"}
    /\ call.beh = "panic"

\* C33: init on a session whose slot is already set returns true without
\* calling the initializer and without creating an instance; the slot, the
\* instances and the display name are as the call found them and nothing was
\* allocated.
C33_InitOnActiveIsNoOp ==
    (call.ep = "init" /\ call.pre.slot # NullPtr) =>
        /\ call.how = "returned"
        /\ call.ret = 1
        /\ ~call.info.ran
        /\ slot = call.pre.slot
        /\ inst = call.pre.inst
        /\ label = call.pre.label
        /\ LiveSet(mem) \subseteq call.pre.live
        /\ Live(mem, label)
        /\ mem.blk[label].bytes = DISPLAY_NAME
        /\ mem.fault = "none"

\* init was called again on an Active session.
C33_Witness ==
    /\ call.ep = "init"
    /\ call.pre.slot # NullPtr
    /\ call.ret = 1
    /\ slot = call.pre.slot
    /\ inst[slot] = 0


\* A step that is a result call (the host's buffer is the block allocated at
\* Fresh(mem)).
ResultStep ==
    /\ input = NullPtr
    /\ UsedSet(mem') # UsedSet(mem)
    /\ call'.ep = "result"

\* C34: when react panics, the host's input slot is left null and the buffer
\* adopted from it (and whatever react grew it into) is freed exactly once,
\* nothing leaked and nothing freed twice; when the panic comes earlier, while
\* the event is decoded, the slot still points at the host's buffer, live and
\* with its text.
C34_ReactPanicFreesInput ==
    [][ResultStep =>
          /\ (call'.info.ran /\ call'.beh # "return") =>
                /\ mem'.fault = "none"
                /\ input' = NullPtr
                /\ LiveSet(mem') = LiveSet(mem)
                /\ Fresh(mem) \in FreedSet(mem')
                /\ UsedSet(mem') \ UsedSet(mem) \subseteq FreedSet(mem')
          /\ ~call'.info.ran =>
                /\ mem'.fault = "none"
                /\ input' = Fresh(mem)
                /\ Live(mem', input')
                /\ mem'.blk[input'].bytes = call'.info.text \o <<0>>
                /\ LiveSet(mem') = LiveSet(mem) \cup {input'}]_vars

\* react grew the input and panicked: the call returned EXIT, the slot is
\* null and nothing of the input is live.
C34_Witness ==
    /\ call.ep = "result"
    /\ call.info.ran
    /\ call.beh = "panic"
    /\ call.info.edit = "push"
    /\ call.ret = EXIT
    /\ input = NullPtr
    /\ LiveSet(mem) = {label}
    /\ FreedSet(mem) # {}


\* A result call whose code decodes as Ok or DeleteEntry, no line selected.
UnselectedOkOrDelete ==
    /\ call.ep = "result"
    /\ call.info.selected_line = C_UINT_MAX
    /\ FirstMatch(call.info.mretv) \in {"Ok", "DeleteEntry"}

\* C35: when the code decodes as Ok or DeleteEntry and the selection index is
\* c_uint::MAX, react is not called, result returns the code of Action::Exit
\* and the slot and its instance are as the call found them.
C35_UnselectedOkExits ==
    UnselectedOkOrDelete =>
        /\ ~call.info.ran
        /\ call.how = "returned"
        /\ call.ret = EXIT
        /\ slot = call.pre.slot
        /\ slot # NullPtr
        /\ inst = call.pre.inst
        /\ inst[slot] = 0

\* ENTRY_DELETE came with no line selected.
C35_Witness ==
    /\ UnselectedOkOrDelete
    /\ call.info.mretv = ENTRY_DELETE
    /\ call.ret = EXIT
    /\ slot # NullPtr


\* The last call's hook returned an empty String.
EmptyFrom(eps) ==
    /\ call.ep \in eps
    /\ call.beh = "return"
    /\ call.info.ran
    /\ call.info.text = <<>>

\* A full get_display_value probe whose entry_content returned an empty String.
EmptyContent ==
    /\ call.ep = "get_display_value"
    /\ call.beh = "return"
    /\ call.info.asked_content
    /\ call.info.content = <<>>

\* The call returned a block of its own to the host, which holds the empty
\* C string until the host frees it.
OwnEmptyBlock ==
    /\ call.how = "returned"
    /\ call.ret \in HeapAddrs
    /\ call.ret \notin call.pre.live
    /\ mem.fault = "none"
    /\ IF call.ret \in handed
       THEN Live(mem, call.ret) /\ mem.blk[call.ret].bytes[1] = 0
       ELSE call.ret \in FreedSet(mem)

\* C37: when the hook returns an empty String, get_message and
\* preprocess_input return null, hand nothing to the host and leave no block
\* behind, while get_completion and a full get_display_value probe return an
\* allocation of their own that holds the terminator and that the host can
\* free; the default preprocess_input returns its input, so an empty host
\* input yields null.
C37_EmptyStringsAtTheBoundary ==
    /\ EmptyFrom({"get_message", "preprocess_input"}) =>
          /\ call.how = "returned"
          /\ call.ret = NullPtr
          /\ mem.fault = "none"
          /\ LiveSet(mem) \subseteq call.pre.live
    /\ EmptyFrom({"get_completion"}) => OwnEmptyBlock
    /\ EmptyContent => OwnEmptyBlock
    /\ (call.ep = "preprocess_input" /\ call.beh = "return" /\ call.info.ran
          /\ call.info.hook = "default") =>
             (call.ret = NullPtr <=> call.info.text = <<>>)

\* get_completion returned the empty String's block and the host freed it.
C37_Witness ==
    /\ EmptyFrom({"get_completion"})
    /\ call.ret \in FreedSet(mem)
    /\ mem.fault = "none"

\* The default preprocess_input met an empty input.
EmptyInputPreprocessed ==
    /\ EmptyFrom({"preprocess_input"})
    /\ call.info.hook = "default"
    /\ call.ret = NullPtr

=============================================================================
